---- MODULE Spec2Model ----
(***************************************************************************)
(* The word ledger and the payment-action reconciliation engine.           *)
(*                                                                         *)
(* Every request handler is a process that runs one database statement     *)
(* (one await of query / queryOne) per step: the handlers use no           *)
(* transaction, so the statements of concurrent requests interleave.  The  *)
(* schema's constraints (UNIQUE position, UNIQUE (word_id, fingerprint),   *)
(* the foreign key of word_flags, CHECK flag_count) reject the statement   *)
(* that would break them; the rejected statement throws.                   *)
(* Amounts are in cents.                                                   *)
(***************************************************************************)
EXTENDS Integers, Sequences, FiniteSets, TLC

VARIABLES
    words,               \* table words: id -> row
    word_flags,          \* table word_flags: rows per <<word_id, session_fingerprint>>
    words_position_seq,  \* sequence words_position_seq: the last value handed out
    uuids,               \* number of ids uuidv4() has produced
    checkouts,           \* table checkouts: payment intent id -> row
    refunds,             \* payment processor: refunds issued, per payment intent
    proc,                \* the request in each handler slot and its locals
    response,            \* the response sent last: function, word, result
    hist,                \* history, read by no handler: see InitHist
    failedAttempts,      \* the server's Map failedAttempts: address -> attempts
    now,                 \* the clock Date.now() reads, in minutes
    env                  \* process.env: ADMIN_ALLOWED_IP, ADMIN_SECRET_TOKEN

vars == <<words, word_flags, words_position_seq, uuids, checkouts, refunds,
          proc, response, hist, failedAttempts, now, env>>

server == <<failedAttempts, now, env>>

ledger == <<words, word_flags, words_position_seq, uuids>>

-----------------------------------------------------------------------------
(* Bounds of the model *)

MaxWords == 4        \* ids uuidv4() may hand out
MaxCart == 2         \* actions in one checkout batch
MaxMinutes == 16     \* minutes the clock runs
MaxBreakPosition == 11   \* the last position a line break is inserted at

Procs == {"h1", "h2"}
PIs == {"pi_1", "pi_2"}
Fingerprints == {"fp_a", "fp_b"}

-----------------------------------------------------------------------------
(* Program constants *)

MAX_FLAG_COUNT == 20
FLAG_RATE_LIMIT == 100
MAX_WORD_LENGTH == 20
MIN_WORD_LENGTH == 1
\* PRICING, in cents: STRIPE_MINIMUM 0.5, WRITE 1.0, REDACT 2.0, UNCOVER 2.0
STRIPE_MINIMUM == 50
PRICE_WRITE == 100
PRICE_REDACT == 200
PRICE_UNCOVER == 200
MAX_FAILURES == 3
BLOCK_DURATION_MS == 900000     \* 15 * 60 * 1000

Pending == "pending"
Visible == "visible"
Protected == "protected"
Flagged == "flagged"
Redacted == "redacted"
AdminRedacted == "admin_redacted"
AdminRemoved == "admin_removed"
LineBreak == "linebreak"

WordStatus ==
    {Pending, Visible, Protected, Flagged, Redacted, AdminRedacted,
     AdminRemoved, LineBreak}

NoPosition == 0      \* position INTEGER ... DEFAULT NULL
NoIntent == "none"   \* stripe_payment_intent_id NULL
NoId == 0            \* action.wordId undefined

Ids == 1..MaxWords

\* A word's content is the tuple of its characters.
NoContent == <<>>
LineBreakContent == <<"\n">>

\* the row queryOne returns when no row matches
NoWord ==
    [position |-> NoPosition, content |-> NoContent, flag_count |-> 0,
     status |-> "none", pi |-> NoIntent]

NewWord(content, status, position, pi) ==
    [position |-> position, content |-> content, flag_count |-> 0,
     status |-> status, pi |-> pi]

-----------------------------------------------------------------------------
(* The schema's constraints *)

\* words_position_key: UNIQUE (position); NULLs never collide
PositionUnique(ws) ==
    \A a, b \in DOMAIN ws :
        (a # b /\ ws[a].position # NoPosition) => ws[a].position # ws[b].position

\* CHECK (flag_count >= 0 AND flag_count <= 20)
FlagCountCheck(ws) ==
    \A a \in DOMAIN ws : ws[a].flag_count >= 0 /\ ws[a].flag_count <= 20

WordsConstraints(ws) == PositionUnique(ws) /\ FlagCountCheck(ws)

\* the errors a rejected statement throws
Errors == {"error_position", "error_flag_count", "error_word_flags"}

Violation(ws) ==
    IF ~PositionUnique(ws) THEN "error_position" ELSE "error_flag_count"

WordExists(ws, fs, id, fp) == id \in DOMAIN ws

\* word_flags: UNIQUE (word_id, session_fingerprint);
\* word_id REFERENCES words (id)
FlagInsertAllowed(ws, fs, id, fp) == id \in DOMAIN ws /\ fs[<<id, fp>>] = 0

-----------------------------------------------------------------------------
(* The statements of words.ts, as functions of the tables *)

\* SELECT * FROM words WHERE id = $1
SelectWord(ws, id) == IF id \in DOMAIN ws THEN ws[id] ELSE NoWord

currval(seq) == seq

nextval(seq) == seq + 1

\* INSERT INTO words (id, content, status, ...)
InsertWord(ws, id, row) == ws @@ (id :> row)

\* UPDATE words SET status = visible, position = nextval(...) WHERE id AND status = pending
PublishMatches(ws, id) == id \in DOMAIN ws /\ ws[id].status = Pending

PublishUpdate(ws, id, pos) ==
    IF PublishMatches(ws, id)
    THEN [ws EXCEPT ![id].status = Visible, ![id].position = pos]
    ELSE ws

SetStatusDropContent(ws, id, status) ==
    IF id \in DOMAIN ws
    THEN [ws EXCEPT ![id].status = status, ![id].flag_count = 0,
                    ![id].content = NoContent]
    ELSE ws

\* UPDATE words SET status = $1, flag_count = 0 WHERE id = $2
SetStatusResetFlags(ws, id, status) ==
    IF id \in DOMAIN ws
    THEN [ws EXCEPT ![id].status = status, ![id].flag_count = 0]
    ELSE ws

First(a, b) == a

Least(a, b) == IF a <= b THEN a ELSE b

\* UPDATE words SET flag_count = LEAST(flag_count + 1, 20), status = $2 WHERE id = $3
FlagUpdate(ws, id, newStatus) ==
    IF id \in DOMAIN ws
    THEN [ws EXCEPT ![id].flag_count = Least(@ + 1, MAX_FLAG_COUNT),
                    ![id].status = newStatus]
    ELSE ws

\* UPDATE words SET flag_count = $1, status = $2 WHERE id = $3
UnflagUpdate(ws, id, newFlagCount, newStatus) ==
    IF id \in DOMAIN ws
    THEN [ws EXCEPT ![id].flag_count = newFlagCount, ![id].status = newStatus]
    ELSE ws

NoShift(ws, position) == ws

\* UPDATE words SET position = position + 1 WHERE position >= $1 AND status != pending
ShiftUpdate(ws, position) ==
    [a \in DOMAIN ws |->
        IF ws[a].position # NoPosition /\ ws[a].position >= position
           /\ ws[a].status # Pending
        THEN [ws[a] EXCEPT !.position = @ + 1]
        ELSE ws[a]]

\* DELETE FROM words WHERE id = $1
DeleteWordRow(ws, id) == [a \in DOMAIN ws \ {id} |-> ws[a]]

\* DELETE FROM word_flags WHERE word_id = $1 (also the ON DELETE CASCADE)
DeleteFlagsOf(fs, id) == [f \in DOMAIN fs |-> IF f[1] = id THEN 0 ELSE fs[f]]

\* SELECT COUNT(*) FROM word_flags WHERE session_fingerprint = $1
RECURSIVE SumRows(_, _)
SumRows(fs, keys) ==
    IF keys = {} THEN 0
    ELSE LET k == CHOOSE x \in keys : TRUE
         IN  fs[k] + SumRows(fs, keys \ {k})

CountFlags(fs, fp) == SumRows(fs, {f \in DOMAIN fs : f[2] = fp})

Abs(x) == IF x < 0 THEN -x ELSE x

neverNearby(ws, position) == FALSE

\* SELECT id FROM words WHERE status = linebreak AND ABS(position - $2) < 10 LIMIT 1
NearbyBreak(ws, position) ==
    \E a \in DOMAIN ws :
        /\ ws[a].status = LineBreak
        /\ ws[a].position # NoPosition
        /\ Abs(ws[a].position - position) < 10

-----------------------------------------------------------------------------
(* The guards of words.ts, on the row the first SELECT returned *)

flagWordRejects(word) ==
    word = NoWord \/ word.status = Redacted \/ word.status = AdminRemoved

aboveCeiling(word) == word.flag_count > MAX_FLAG_COUNT

flagWordAtCeiling(word) == word.flag_count >= MAX_FLAG_COUNT

sameStatus(word) == word.status

flagNewStatus(word) == IF word.status = Visible THEN Flagged ELSE word.status

rejectsMissing(word) == word = NoWord

redactWordRejects(word) ==
    word = NoWord \/ word.status = Redacted \/ word.status = AdminRemoved

rejectsUnlessHidden(word) ==
    word = NoWord \/ word.status \notin {Redacted, AdminRedacted}

uncoverWordRejects(word) == word = NoWord \/ word.status # Redacted

adminUncoverWordRejects(word) ==
    word = NoWord \/ (word.status # Redacted /\ word.status # AdminRedacted)

adminRestoreWordRejects(word) == word = NoWord \/ word.status # AdminRemoved

adminUnflagWordRejects(word) == word = NoWord \/ word.flag_count <= 0

unflagNewStatus(word) == IF word.flag_count - 1 = 0 THEN Visible ELSE word.status

-----------------------------------------------------------------------------
(* The story read *)

NullContent == <<"null">>

toRawResponse(id, row) ==
    [id |-> id, position |-> row.position, content |-> row.content,
     content_length |-> Len(row.content),
     flag_count |-> row.flag_count, status |-> row.status]

toApiResponse(id, row) ==
    LET isHidden == row.status = Redacted \/ row.status = AdminRedacted
                    \/ row.status = AdminRemoved
    IN  [id |-> id, position |-> row.position,
         content |-> IF isHidden THEN NullContent ELSE row.content,
         content_length |-> Len(row.content),
         flag_count |-> row.flag_count, status |-> row.status]

\* the ids of rows, ORDER BY position ASC
RECURSIVE OrderByPosition(_, _)
OrderByPosition(ws, ids) ==
    IF ids = {} THEN <<>>
    ELSE LET first == CHOOSE a \in ids :
                          \A b \in ids : ws[a].position <= ws[b].position
         IN  <<first>> \o OrderByPosition(ws, ids \ {first})

\* SELECT ... FROM words WHERE status != pending ORDER BY position ASC
getStory(ws) ==
    LET ids == OrderByPosition(ws, {a \in DOMAIN ws : ws[a].status # Pending})
    IN  [k \in 1..Len(ids) |-> toApiResponse(ids[k], ws[ids[k]])]

-----------------------------------------------------------------------------
(* validation.ts and the Checkout Validator *)

\* the characters WORD_PATTERN allows, among the characters the model writes
AllowedChars ==
    {"a", "b", "c", "d", "e", "f", "g", "h", "i", "j", "k", "l", "m", "n", "o",
     "p", "q", "r", "s", "t", "u", "v", "w", "x", "y", "z", "!", "?", ".", "-"}

validateWord(word) ==
    IF Len(word) < MIN_WORD_LENGTH THEN "Word must be at least 1 character."
    ELSE IF Len(word) > MAX_WORD_LENGTH THEN "Word must be 20 characters or fewer."
    ELSE IF \E k \in 1..Len(word) : word[k] \notin AllowedChars
         THEN "Word contains disallowed characters."
    ELSE "valid"

CartAction(type, wordId, wordContent, price) ==
    [type |-> type, wordId |-> wordId, wordContent |-> wordContent, price |-> price]

RECURSIVE SumPrices(_)
SumPrices(actions) ==
    IF actions = <<>> THEN 0
    ELSE Head(actions).price + SumPrices(Tail(actions))

\* the error of the first write action that fails its check, "valid" when none does
RECURSIVE writeErrors(_)
writeErrors(actions) ==
    IF actions = <<>> THEN "valid"
    ELSE LET action == Head(actions) IN
         IF action.type = "write" /\ action.wordContent = NoContent
         THEN "Write action requires word content."
         ELSE IF action.type = "write" /\ validateWord(action.wordContent) # "valid"
         THEN validateWord(action.wordContent)
         ELSE writeErrors(Tail(actions))

neverConflict(actions) == FALSE

\* types.includes(Redact) && types.includes(Uncover) for some word id
cartConflict(actions) ==
    \E a, b \in 1..Len(actions) :
        /\ actions[a].wordId # NoId
        /\ actions[a].wordId = actions[b].wordId
        /\ actions[a].type = "redact"
        /\ actions[b].type = "uncover"

acceptsAll(actions) == "valid"

validateCart(actions) ==
    IF Len(actions) = 0 THEN "Cart is empty."
    ELSE IF writeErrors(actions) # "valid" THEN writeErrors(actions)
    ELSE IF cartConflict(actions) THEN "Conflicting actions on word."
    ELSE IF SumPrices(actions) < STRIPE_MINIMUM THEN "Cart total must be at least $0.50."
    ELSE "valid"

NewProcessing(actions, totalAmount) ==
    [status |-> "processing", cart_actions |-> actions, results |-> <<>>,
     total_amount |-> totalAmount, refund_amount |-> 0, completed_at |-> FALSE]

NewCheckout(actions, totalAmount) ==
    [status |-> "pending", cart_actions |-> actions, results |-> <<>>,
     total_amount |-> totalAmount, refund_amount |-> 0, completed_at |-> FALSE]

-----------------------------------------------------------------------------
(* Handler slots *)

IdleProc ==
    [handler |-> "idle", fn |-> "none", pc |-> "idle", wordId |-> NoId,
     fp |-> "none", content |-> NoContent, position |-> NoPosition,
     word |-> NoWord, pi |-> NoIntent, actions |-> <<>>, i |-> 0,
     results |-> <<>>, refundTotal |-> 0, totalAmount |-> 0]

Idle(p) == proc[p].handler = "idle"

InWebhook(p) == proc[p].handler = "webhook"

\* the action the loop of the webhook is at
LoopAt(p) ==
    InWebhook(p) /\ proc[p].pc = "loop" /\ proc[p].i <= Len(proc[p].actions)

CurAction(p) == proc[p].actions[proc[p].i]

\* a ledger function is entered by a route (the slot is idle) or by the webhook's
\* loop, at an action of the function's type that names the word
Enters(p, via, type, id) ==
    IF via = "route" THEN Idle(p)
    ELSE LoopAt(p) /\ CurAction(p).type = type /\ CurAction(p).wordId = id
         /\ id # NoId

\* the slot after the function's SELECT, waiting for its next statement
Running(p, fn, pc, id, word) ==
    [proc[p] EXCEPT !.handler = IF @ = "idle" THEN "route" ELSE @,
                    !.fn = fn, !.pc = pc, !.wordId = id, !.word = word]

failReason(type) ==
    IF type = "redact" THEN "Word is already redacted or removed."
    ELSE IF type = "uncover" THEN "Word is not currently redacted."
    ELSE ""

OwedWhenFailed(action, r) ==
    IF r \notin {"true", "skipped"} /\ action.price > 0 THEN action.price ELSE 0

\* if (!success && action.price > 0) refundTotal += action.price, and the same
\* in the catch: r is "true" or "false" (the function's result), an error (it
\* threw) or "skipped" (no case of the switch ran, success is still false)
Owed(action, r) == IF r # "true" /\ action.price > 0 THEN action.price ELSE 0

AbortOnThrow(pr, wordId, r) ==
    [pr EXCEPT !.i = IF r \in Errors THEN Len(pr.actions) + 1 ELSE @ + 1,
               !.refundTotal = @ + Owed(pr.actions[pr.i], r),
               !.pc = "loop", !.fn = "none", !.wordId = NoId, !.word = NoWord]

\* the webhook's loop after one action
AfterAction(pr, wordId, r) ==
    LET action == pr.actions[pr.i]
        owed == Owed(action, r)
        result ==
            [type |-> action.type,
             wordId |-> IF r \in Errors THEN action.wordId ELSE wordId,
             success |-> r = "true",
             reason |-> IF r \in Errors THEN "Internal error processing action."
                        ELSE IF r = "true" THEN ""
                        ELSE failReason(action.type)]
    IN  [pr EXCEPT !.results = IF r = "skipped" THEN @ ELSE Append(@, result),
                   !.refundTotal = @ + owed,
                   !.i = @ + 1,
                   !.pc = "loop", !.fn = "none", !.wordId = NoId, !.word = NoWord]

\* at: the return statement of the webhook that answered, at its guard or at
\* its end
NoResponse ==
    [fn |-> "none", wordId |-> NoId, fp |-> "none", ret |-> "none", retN |-> 0,
     at |-> ""]

NoFlags == [f \in Ids \X Fingerprints |-> 0]

InitHist ==
    [published |-> <<>>,              \* word ids in the order they were published
     runs |-> [pi \in PIs |-> 0],     \* entries into the webhook's action loop
     seen |-> <<>>,                   \* the rows the webhook's redact/uncover read
     locked |-> {},                   \* words admin_redacted, no admin change since
     raised |-> [f \in Ids \X Fingerprints |-> 0],
                                      \* flag_count raised by flagWord, per pair
     intents |-> {},                  \* payment intents created at the processor
     request |-> <<>>]                \* address and token of the last admin request

\* the handler goes on to its next statement
Step(p, next) ==
    proc' = [proc EXCEPT ![p] = next] /\ UNCHANGED <<response, server>>

\* the request is answered and its slot is free again
RespondFp(p, fn, id, fp, r, n) ==
    /\ proc' = [proc EXCEPT ![p] = IdleProc]
    /\ response' = [fn |-> fn, wordId |-> id, fp |-> fp, ret |-> r, retN |-> n,
                     at |-> IF fn # "webhook" THEN ""
                            ELSE IF InWebhook(p) THEN "end" ELSE "guard"]
    /\ UNCHANGED server

Respond(p, fn, id, r, n) == RespondFp(p, fn, id, proc[p].fp, r, n)

\* the function returns r (and the number n): to the webhook's loop, or to
\* the route, which answers with it
Return(p, fn, id, r, n) ==
    IF InWebhook(p)
    THEN Step(p, AfterAction(proc[p], id, r))
    ELSE Respond(p, fn, id, r, n)

-----------------------------------------------------------------------------
(* POST /api/checkout *)

\* validateCart, createPaymentIntent(totalAmount), INSERT INTO checkouts
CreateCheckout(pi, actions, totalAmount) ==
    /\ pi \notin DOMAIN checkouts
    /\ validateCart(actions) = "valid"
    /\ checkouts' = checkouts @@ (pi :> NewCheckout(actions, totalAmount))
    /\ hist' = [hist EXCEPT !.intents = @ \cup {pi}]
    /\ UNCHANGED <<ledger, refunds, proc, response, server>>

\* the same route statement by statement: validateCart, then
\* createPaymentIntent, then the INSERT into checkouts
checkout_validate(p, actions, totalAmount) ==
    /\ Idle(p)
    /\ IF validateCart(actions) # "valid"
       THEN Respond(p, "checkout", NoId, validateCart(actions), 400)
       ELSE Step(p, [IdleProc EXCEPT !.handler = "checkout", !.pc = "intent",
                                     !.actions = actions,
                                     !.totalAmount = totalAmount])
    /\ UNCHANGED <<ledger, checkouts, refunds, hist>>

\* stripe().paymentIntents.create gives a new intent or throws
checkout_createPaymentIntent(p, pi, ok) ==
    /\ proc[p].handler = "checkout" /\ proc[p].pc = "intent"
    /\ IF ok
       THEN /\ pi \notin hist.intents
            /\ hist' = [hist EXCEPT !.intents = @ \cup {pi}]
            /\ Step(p, [proc[p] EXCEPT !.pc = "insert", !.pi = pi])
       ELSE /\ Respond(p, "checkout", NoId, "Failed to create checkout.", 500)
            /\ UNCHANGED hist
    /\ UNCHANGED <<ledger, checkouts, refunds>>

\* INSERT INTO checkouts (stripe_payment_intent_id, cart_actions, total_amount)
checkout_insert(p) ==
    /\ proc[p].handler = "checkout" /\ proc[p].pc = "insert"
    /\ IF proc[p].pi \in DOMAIN checkouts
       THEN /\ Respond(p, "checkout", NoId, "Failed to create checkout.", 500)
            /\ UNCHANGED checkouts
       ELSE /\ checkouts' = checkouts @@
                    (proc[p].pi :> NewCheckout(proc[p].actions, proc[p].totalAmount))
            /\ Respond(p, "checkout", NoId, proc[p].pi, 200)
    /\ UNCHANGED <<ledger, refunds, hist>>

-----------------------------------------------------------------------------
(* POST /api/webhook: one delivery of payment_intent.succeeded for pi *)

checkoutExists(cs, pi) == pi \in DOMAIN cs

\* what the guard after the lookup lets through
checkoutIsPending(cs, pi) == pi \in DOMAIN cs /\ cs[pi].status = "pending"

\* SELECT * FROM checkouts WHERE stripe_payment_intent_id = $1, and the guard
WebhookLookup(p, pi) ==
    /\ Idle(p)
    /\ IF checkoutIsPending(checkouts, pi)
       THEN Step(p, [IdleProc EXCEPT !.handler = "webhook", !.pc = "mark",
                                     !.pi = pi,
                                     !.actions = checkouts[pi].cart_actions])
       ELSE Respond(p, "webhook", NoId, "received", 0)
    /\ UNCHANGED <<ledger, checkouts, refunds, hist>>

anyEvent(type) == TRUE

\* event.type === "payment_intent.succeeded"
eventSucceeded(type) == type = "payment_intent.succeeded"

\* the callback from its first line: the stripe-signature header, then
\* constructWebhookEvent (it throws on a signature that does not verify, the
\* outer catch answers 400), then the event type, then the lookup
WebhookReceive(p, signature, type, pi) ==
    IF signature = "missing"
    THEN /\ Idle(p)
         /\ Respond(p, "webhook", NoId, "Missing stripe-signature header.", 400)
         /\ UNCHANGED <<ledger, checkouts, refunds, hist>>
    ELSE IF signature # "valid"
    THEN /\ Idle(p)
         /\ Respond(p, "webhook", NoId, "Webhook processing failed.", 400)
         /\ UNCHANGED <<ledger, checkouts, refunds, hist>>
    ELSE IF ~eventSucceeded(type)
    THEN /\ Idle(p)
         /\ Respond(p, "webhook", NoId, "received", 0)
         /\ UNCHANGED <<ledger, checkouts, refunds, hist>>
    ELSE WebhookLookup(p, pi)

\* UPDATE checkouts SET status = 'processing' WHERE id = $1
MarkProcessing(cs, pi) == [cs EXCEPT ![pi].status = "processing"]

WebhookMark(p) ==
    /\ InWebhook(p) /\ proc[p].pc = "mark"
    /\ checkouts' = MarkProcessing(checkouts, proc[p].pi)
    /\ hist' = [hist EXCEPT !.runs[proc[p].pi] = @ + 1]
    /\ Step(p, [proc[p] EXCEPT !.pc = "loop", !.i = 1])
    /\ UNCHANGED <<ledger, refunds>>

\* an action no case of the switch handles: another type, a write without
\* wordContent, a redact or uncover without wordId
Unhandled(action) ==
    \/ action.type \notin {"write", "redact", "uncover"}
    \/ action.type = "write" /\ action.wordContent = NoContent
    \/ action.type \in {"redact", "uncover"} /\ action.wordId = NoId

WebhookSkip(p) ==
    /\ LoopAt(p) /\ Unhandled(CurAction(p))
    /\ Step(p, AfterAction(proc[p], NoId, "skipped"))
    /\ UNCHANGED <<ledger, checkouts, refunds, hist>>

\* createPendingWord: INSERT INTO words (id, content, status, stripe_payment_intent_id)
createPendingWord(p) ==
    /\ LoopAt(p) /\ CurAction(p).type = "write"
    /\ CurAction(p).wordContent # NoContent
    /\ uuids < MaxWords
    /\ uuids' = uuids + 1
    /\ words' = InsertWord(words, uuids + 1,
                           NewWord(CurAction(p).wordContent, Pending, NoPosition,
                                   proc[p].pi))
    /\ Step(p, [proc[p] EXCEPT !.fn = "publishWord", !.pc = "update",
                               !.wordId = uuids + 1])
    /\ UNCHANGED <<word_flags, words_position_seq, checkouts, refunds, hist>>

\* publishWord: UPDATE words SET status, position = nextval(...), created_at
publishWord(p) ==
    /\ InWebhook(p) /\ proc[p].fn = "publishWord"
    /\ LET id == proc[p].wordId
           hit == PublishMatches(words, id)
           pos == nextval(words_position_seq)
           new == PublishUpdate(words, id, pos)
       IN  /\ words_position_seq' = IF hit THEN pos ELSE words_position_seq
           /\ IF WordsConstraints(new)
              THEN /\ words' = new
                   /\ hist' = IF hit
                              THEN [hist EXCEPT !.published = Append(@, id)]
                              ELSE hist
                   /\ Step(p, AfterAction(proc[p], id, "true"))
              ELSE /\ UNCHANGED <<words, hist>>
                   /\ Step(p, AfterAction(proc[p], id, Violation(new)))
    /\ UNCHANGED <<word_flags, uuids, checkouts, refunds>>

RefundOrAbort(p, ok) ==
    /\ InWebhook(p) /\ proc[p].pc = "loop" /\ proc[p].i > Len(proc[p].actions)
    /\ proc[p].refundTotal > 0
    /\ IF ok
       THEN /\ refunds' = [refunds EXCEPT ![proc[p].pi] =
                               Append(@, proc[p].refundTotal)]
            /\ Step(p, [proc[p] EXCEPT !.pc = "complete"])
       ELSE /\ UNCHANGED refunds
            /\ Respond(p, "webhook", NoId, "Webhook processing failed.", 400)
    /\ UNCHANGED <<ledger, checkouts, hist>>

\* issuePartialRefund(paymentIntentId, refundTotal); a failure is caught and logged
WebhookRefund(p, ok) ==
    /\ InWebhook(p) /\ proc[p].pc = "loop" /\ proc[p].i > Len(proc[p].actions)
    /\ proc[p].refundTotal > 0
    /\ refunds' = IF ok THEN [refunds EXCEPT ![proc[p].pi] =
                                  Append(@, proc[p].refundTotal)]
                  ELSE refunds
    /\ Step(p, [proc[p] EXCEPT !.pc = "complete"])
    /\ UNCHANGED <<ledger, checkouts, hist>>

\* UPDATE checkouts SET status = 'completed', results, refund_amount, completed_at
MarkCompleted(cs, pi, results, refundTotal) ==
    [cs EXCEPT ![pi].status = "completed", ![pi].results = results,
               ![pi].refund_amount = refundTotal, ![pi].completed_at = TRUE]

WebhookComplete(p) ==
    /\ InWebhook(p)
    /\ \/ proc[p].pc = "complete"
       \/ /\ proc[p].pc = "loop" /\ proc[p].i > Len(proc[p].actions)
          /\ proc[p].refundTotal = 0
    /\ checkouts' = MarkCompleted(checkouts, proc[p].pi, proc[p].results,
                                  proc[p].refundTotal)
    /\ Respond(p, "webhook", NoId, "received", 0)
    /\ UNCHANGED <<ledger, refunds, hist>>

-----------------------------------------------------------------------------
(* redactWord, uncoverWord: called by the webhook's loop and by the admin route *)

\* history after the administrator changed the table to ws: the words that
\* are admin_redacted by the administrator's last change to them
Locked(ws) ==
    [hist EXCEPT !.locked =
        {a \in DOMAIN ws :
            IF a \in DOMAIN words /\ ws[a] = words[a] THEN a \in @
            ELSE ws[a].status = AdminRedacted}]

\* history: the status the webhook's action found the word in
Saw(pi, id, status) ==
    [hist EXCEPT !.seen = Append(@, [pi |-> pi, wordId |-> id, status |-> status])]

redactWord_select(p, via, id) ==
    /\ Enters(p, via, "redact", id)
    /\ LET word == SelectWord(words, id) IN
           /\ IF redactWordRejects(word)
              THEN Return(p, "redactWord", id, "false", 0)
              ELSE Step(p, Running(p, "redactWord", "update", id, NoWord))
           /\ hist' = IF via = "webhook" THEN Saw(proc[p].pi, id, word.status)
                      ELSE hist
    /\ UNCHANGED <<ledger, checkouts, refunds>>

redactWord_update(p) ==
    /\ proc[p].fn = "redactWord" /\ proc[p].pc = "update"
    /\ words' = SetStatusResetFlags(words, proc[p].wordId, Redacted)
    /\ hist' = IF InWebhook(p) THEN hist
               ELSE Locked(SetStatusResetFlags(words, proc[p].wordId, Redacted))
    /\ Return(p, "redactWord", proc[p].wordId, "true", 0)
    /\ UNCHANGED <<word_flags, words_position_seq, uuids, checkouts, refunds>>

uncoverWord_select(p, via, id) ==
    /\ Enters(p, via, "uncover", id)
    /\ LET word == SelectWord(words, id) IN
           /\ IF uncoverWordRejects(word)
              THEN Return(p, "uncoverWord", id, "false", 0)
              ELSE Step(p, Running(p, "uncoverWord", "update", id, NoWord))
           /\ hist' = IF via = "webhook" THEN Saw(proc[p].pi, id, word.status)
                      ELSE hist
    /\ UNCHANGED <<ledger, checkouts, refunds>>

uncoverWord_update(p) ==
    /\ proc[p].fn = "uncoverWord" /\ proc[p].pc = "update"
    /\ words' = SetStatusResetFlags(words, proc[p].wordId, Visible)
    /\ hist' = IF InWebhook(p) THEN hist
               ELSE Locked(SetStatusResetFlags(words, proc[p].wordId, Visible))
    /\ Return(p, "uncoverWord", proc[p].wordId, "true", 0)
    /\ UNCHANGED <<word_flags, words_position_seq, uuids, checkouts, refunds>>

-----------------------------------------------------------------------------
(* flagWord: POST /api/flag *)

flagWord_select(p, id, fp) ==
    /\ Idle(p)
    /\ LET word == SelectWord(words, id) IN
           IF flagWordRejects(word)
           THEN RespondFp(p, "flagWord", id, fp, "null", 0)
           ELSE IF flagWordAtCeiling(word)
           THEN RespondFp(p, "flagWord", id, fp, "count", word.flag_count)
           ELSE Step(p, [Running(p, "flagWord", "existing", id, word)
                             EXCEPT !.fp = fp])
    /\ UNCHANGED <<ledger, checkouts, refunds, hist>>

\* SELECT 1 FROM word_flags WHERE word_id = $1 AND session_fingerprint = $2
flagExists(fs, id, fp) == fs[<<id, fp>>] > 0

flagWord_existing(p) ==
    /\ proc[p].fn = "flagWord" /\ proc[p].pc = "existing"
    /\ IF flagExists(word_flags, proc[p].wordId, proc[p].fp)
       THEN Return(p, "flagWord", proc[p].wordId, "null", 0)
       ELSE Step(p, [proc[p] EXCEPT !.pc = "count"])
    /\ UNCHANGED <<ledger, checkouts, refunds, hist>>

overLimit(fs, fp) == CountFlags(fs, fp) > FLAG_RATE_LIMIT

rateLimited(fs, fp) == CountFlags(fs, fp) >= FLAG_RATE_LIMIT

flagWord_count(p) ==
    /\ proc[p].fn = "flagWord" /\ proc[p].pc = "count"
    /\ IF rateLimited(word_flags, proc[p].fp)
       THEN Return(p, "flagWord", proc[p].wordId, "null", 0)
       ELSE Step(p, [proc[p] EXCEPT !.pc = "insert"])
    /\ UNCHANGED <<ledger, checkouts, refunds, hist>>

\* INSERT INTO word_flags (word_id, session_fingerprint); a rejected row throws
flagWord_insert(p) ==
    /\ proc[p].fn = "flagWord" /\ proc[p].pc = "insert"
    /\ IF FlagInsertAllowed(words, word_flags, proc[p].wordId, proc[p].fp)
       THEN /\ word_flags' = [word_flags EXCEPT ![<<proc[p].wordId, proc[p].fp>>] = @ + 1]
            /\ Step(p, [proc[p] EXCEPT !.pc = "update"])
       ELSE /\ UNCHANGED word_flags
            /\ Return(p, "flagWord", proc[p].wordId, "error_word_flags", 0)
    /\ UNCHANGED <<words, words_position_seq, uuids, checkouts, refunds,
                   hist>>

\* UPDATE words SET flag_count = LEAST(...), status = newStatus RETURNING flag_count
flagWord_update(p) ==
    /\ proc[p].fn = "flagWord" /\ proc[p].pc = "update"
    /\ LET id == proc[p].wordId
           new == FlagUpdate(words, id, flagNewStatus(proc[p].word))
           newFlagCount == IF id \in DOMAIN new THEN new[id].flag_count
                           ELSE proc[p].word.flag_count + 1
       IN  IF WordsConstraints(new)
           THEN /\ words' = new
                /\ hist' = IF id \in DOMAIN new
                           THEN [hist EXCEPT !.raised[<<id, proc[p].fp>>] =
                                    @ + new[id].flag_count - words[id].flag_count]
                           ELSE hist
                /\ Return(p, "flagWord", id, "count", newFlagCount)
           ELSE /\ UNCHANGED <<words, hist>>
                /\ Return(p, "flagWord", id, Violation(new), 0)
    /\ UNCHANGED <<word_flags, words_position_seq, uuids, checkouts, refunds>>

-----------------------------------------------------------------------------
(* The administrator's functions: POST /api/admin *)

\* a function that SELECTs the word, returns false when rejects, and then
\* runs UPDATE words SET status = $1, flag_count = 0
AdminSelect(p, fn, id, rejects) ==
    /\ Idle(p)
    /\ IF rejects
       THEN Return(p, fn, id, "false", 0)
       ELSE Step(p, Running(p, fn, "update", id,
                            IF fn \in {"adminFlagWord", "adminUnflagWord"}
                            THEN SelectWord(words, id) ELSE NoWord))
    /\ UNCHANGED <<ledger, checkouts, refunds, hist>>

AdminSetStatus(p, fn, status) ==
    /\ proc[p].fn = fn /\ proc[p].pc = "update"
    /\ words' = SetStatusResetFlags(words, proc[p].wordId, status)
    /\ hist' = Locked(SetStatusResetFlags(words, proc[p].wordId, status))
    /\ Return(p, fn, proc[p].wordId, "true", 0)
    /\ UNCHANGED <<word_flags, words_position_seq, uuids, checkouts, refunds>>

adminUncoverWord_select(p, id) ==
    AdminSelect(p, "adminUncoverWord", id,
                adminUncoverWordRejects(SelectWord(words, id)))

adminUncoverWord_update(p) == AdminSetStatus(p, "adminUncoverWord", Visible)

adminRemoveWord_select(p, id) ==
    AdminSelect(p, "adminRemoveWord", id, SelectWord(words, id) = NoWord)

adminRemoveWord_update(p) == AdminSetStatus(p, "adminRemoveWord", AdminRemoved)

adminRedactWord_select(p, id) ==
    AdminSelect(p, "adminRedactWord", id, SelectWord(words, id) = NoWord)

adminRedactWord_update(p) == AdminSetStatus(p, "adminRedactWord", AdminRedacted)

adminRestoreWord_select(p, id) ==
    AdminSelect(p, "adminRestoreWord", id,
                adminRestoreWordRejects(SelectWord(words, id)))

adminRestoreWord_update(p) == AdminSetStatus(p, "adminRestoreWord", Visible)

adminFlagWord_select(p, id) ==
    AdminSelect(p, "adminFlagWord", id, SelectWord(words, id) = NoWord)

adminFlagWord_update(p) ==
    /\ proc[p].fn = "adminFlagWord" /\ proc[p].pc = "update"
    /\ LET new == FlagUpdate(words, proc[p].wordId, flagNewStatus(proc[p].word))
       IN  IF WordsConstraints(new)
           THEN /\ words' = new
                /\ hist' = Locked(new)
                /\ Return(p, "adminFlagWord", proc[p].wordId, "true", 0)
           ELSE /\ UNCHANGED <<words, hist>>
                /\ Return(p, "adminFlagWord", proc[p].wordId, Violation(new), 0)
    /\ UNCHANGED <<word_flags, words_position_seq, uuids, checkouts, refunds>>

adminUnflagWord_select(p, id) ==
    AdminSelect(p, "adminUnflagWord", id,
                adminUnflagWordRejects(SelectWord(words, id)))

adminUnflagWord_update(p) ==
    /\ proc[p].fn = "adminUnflagWord" /\ proc[p].pc = "update"
    /\ LET new == UnflagUpdate(words, proc[p].wordId,
                               proc[p].word.flag_count - 1,
                               unflagNewStatus(proc[p].word))
       IN  IF WordsConstraints(new)
           THEN /\ words' = new
                /\ hist' = Locked(new)
                /\ Return(p, "adminUnflagWord", proc[p].wordId, "true", 0)
           ELSE /\ UNCHANGED <<words, hist>>
                /\ Return(p, "adminUnflagWord", proc[p].wordId, Violation(new), 0)
    /\ UNCHANGED <<word_flags, words_position_seq, uuids, checkouts, refunds>>


\* adminWriteWord: INSERT INTO words (...) VALUES (..., nextval('words_position_seq'))
adminWriteWord(p, content) ==
    /\ Idle(p)
    /\ uuids < MaxWords
    /\ uuids' = uuids + 1
    /\ words_position_seq' = nextval(words_position_seq)
    /\ LET id == uuids + 1
           new == InsertWord(words, id,
                             NewWord(content, Visible,
                                     nextval(words_position_seq), NoIntent))
       IN  IF WordsConstraints(new)
           THEN /\ words' = new
                /\ hist' = [hist EXCEPT !.published = Append(@, id)]
                /\ Return(p, "adminWriteWord", id, "id", id)
           ELSE /\ UNCHANGED <<words, hist>>
                /\ Return(p, "adminWriteWord", id, Violation(new), 0)
    /\ UNCHANGED <<word_flags, checkouts, refunds>>

\* adminInsertWordAt: UPDATE words SET position = position + 1 ..., then INSERT
adminInsertWordAt_shift(p, content, position) ==
    /\ Idle(p)
    /\ uuids < MaxWords
    /\ uuids' = uuids + 1
    /\ LET new == ShiftUpdate(words, position) IN
           IF WordsConstraints(new)
           THEN /\ words' = new
                /\ Step(p, [Running(p, "adminInsertWordAt", "insert", uuids + 1,
                                    NoWord)
                                EXCEPT !.content = content, !.position = position])
           ELSE /\ UNCHANGED words
                /\ Return(p, "adminInsertWordAt", uuids + 1, Violation(new), 0)
    /\ UNCHANGED <<word_flags, words_position_seq, checkouts, refunds, hist>>

InsertAt(p, fn, status) ==
    /\ proc[p].fn = fn /\ proc[p].pc = "insert"
    /\ LET id == proc[p].wordId
           new == InsertWord(words, id,
                             NewWord(proc[p].content, status, proc[p].position,
                                     NoIntent))
       IN  IF WordsConstraints(new)
           THEN /\ words' = new
                /\ Return(p, fn, id, "id", id)
           ELSE /\ UNCHANGED words
                /\ Return(p, fn, id, Violation(new), 0)
    /\ UNCHANGED <<word_flags, words_position_seq, uuids, checkouts, refunds,
                   hist>>

adminInsertWordAt_insert(p) == InsertAt(p, "adminInsertWordAt", Visible)

\* adminInsertLineBreak: the spacing check, then the shift, then the INSERT
adminInsertLineBreak_select(p, position) ==
    /\ Idle(p)
    /\ IF NearbyBreak(words, position)
       THEN /\ Return(p, "adminInsertLineBreak", NoId, "null", 0)
            /\ UNCHANGED uuids
       ELSE /\ uuids < MaxWords
            /\ uuids' = uuids + 1
            /\ Step(p, [Running(p, "adminInsertLineBreak", "shift", uuids + 1,
                                NoWord)
                            EXCEPT !.content = LineBreakContent,
                                   !.position = position])
    /\ UNCHANGED <<words, word_flags, words_position_seq, checkouts, refunds,
                   hist>>

adminInsertLineBreak_shift(p) ==
    /\ proc[p].fn = "adminInsertLineBreak" /\ proc[p].pc = "shift"
    /\ LET new == ShiftUpdate(words, proc[p].position) IN
           IF WordsConstraints(new)
           THEN /\ words' = new
                /\ Step(p, [proc[p] EXCEPT !.pc = "insert"])
           ELSE /\ UNCHANGED words
                /\ Return(p, "adminInsertLineBreak", proc[p].wordId, Violation(new), 0)
    /\ UNCHANGED <<word_flags, words_position_seq, uuids, checkouts, refunds,
                   hist>>

adminInsertLineBreak_insert(p) == InsertAt(p, "adminInsertLineBreak", LineBreak)

\* adminDeleteWord: SELECT, DELETE FROM words (cascading), DELETE FROM word_flags
adminDeleteWord_select(p, id) ==
    AdminSelect(p, "adminDeleteWord", id, SelectWord(words, id) = NoWord)

adminDeleteWord_delete(p) ==
    /\ proc[p].fn = "adminDeleteWord" /\ proc[p].pc = "update"
    /\ words' = DeleteWordRow(words, proc[p].wordId)
    /\ word_flags' = DeleteFlagsOf(word_flags, proc[p].wordId)
    /\ hist' = Locked(DeleteWordRow(words, proc[p].wordId))
    /\ Step(p, [proc[p] EXCEPT !.pc = "flags"])
    /\ UNCHANGED <<words_position_seq, uuids, checkouts, refunds>>

adminDeleteWord_flags(p) ==
    /\ proc[p].fn = "adminDeleteWord" /\ proc[p].pc = "flags"
    /\ word_flags' = DeleteFlagsOf(word_flags, proc[p].wordId)
    /\ Return(p, "adminDeleteWord", proc[p].wordId, "true", 0)
    /\ UNCHANGED <<words, words_position_seq, uuids, checkouts, refunds,
                   hist>>

-----------------------------------------------------------------------------
(* authenticateAdmin and the gate of POST /api/admin *)

\* process.env with both variables set; "" is a variable that is not set
Configured == [ADMIN_ALLOWED_IP |-> "ip_admin", ADMIN_SECRET_TOKEN |-> "secret"]

\* Date.now(), in milliseconds, when the clock shows t minutes
DateNow(t) == t * 60000

NoAttempts == [count |-> 0, blockedUntil |-> 0]

\* failedAttempts.get(clientIp) ?? { count: 0, blockedUntil: 0 }
Attempts(fa, ip) == IF ip \in DOMAIN fa THEN fa[ip] ELSE NoAttempts

\* !allowedIp || !secretToken
configured(e) == e.ADMIN_ALLOWED_IP # "" /\ e.ADMIN_SECRET_TOKEN # ""

anyIp(e, ip) == TRUE

\* clientIp !== allowedIp
ipAllowed(e, ip) == ip = e.ADMIN_ALLOWED_IP

everAttempted(fa, ip) == ip \in DOMAIN fa

atLimit(fa, ip) == ip \in DOMAIN fa /\ fa[ip].count >= MAX_FAILURES

neverBlocked(fa, ip, ms) == FALSE

\* attempts && attempts.count >= MAX_FAILURES && Date.now() < attempts.blockedUntil
blocked(fa, ip, ms) == atLimit(fa, ip) /\ ms < fa[ip].blockedUntil

\* the block expired: failedAttempts.delete(clientIp)
afterRateCheck(fa, ip, ms) ==
    IF atLimit(fa, ip) /\ ~(ms < fa[ip].blockedUntil)
    THEN [k \in DOMAIN fa \ {ip} |-> fa[k]]
    ELSE fa

\* current.count += 1, blockedUntil set at MAX_FAILURES, failedAttempts.set
trackFailure(fa, ip, ms) ==
    LET current == Attempts(fa, ip)
        count == current.count + 1
    IN  [k \in DOMAIN fa \cup {ip} |->
            IF k = ip
            THEN [count |-> count,
                  blockedUntil |-> IF count >= MAX_FAILURES
                                   THEN ms + BLOCK_DURATION_MS
                                   ELSE current.blockedUntil]
            ELSE fa[k]]

AuthResult(authorized, statusCode, fa) ==
    [authorized |-> authorized, statusCode |-> statusCode, failedAttempts |-> fa]

\* the result, and the Map failedAttempts as the call leaves it
authenticateAdmin(fa, ms, e, ip, token) ==
    IF ~configured(e) THEN AuthResult(FALSE, 404, fa)
    ELSE IF ~ipAllowed(e, ip) THEN AuthResult(FALSE, 404, fa)
    ELSE IF blocked(fa, ip, ms) THEN AuthResult(FALSE, 429, fa)
    ELSE IF token # e.ADMIN_SECRET_TOKEN
         THEN AuthResult(FALSE, 404, trackFailure(afterRateCheck(fa, ip, ms), ip, ms))
    ELSE AuthResult(TRUE, 200, afterRateCheck(fa, ip, ms))

\* POST /api/admin with action admin_redact: authenticateAdmin, the 404 or 429
\* answer, or else the SELECT of adminRedactWord
AdminPost(p, ip, token, id) ==
    /\ Idle(p)
    /\ LET auth == authenticateAdmin(failedAttempts, DateNow(now), env, ip, token) IN
           /\ failedAttempts' = auth.failedAttempts
           /\ IF ~auth.authorized
              THEN /\ response' = [NoResponse EXCEPT
                                      !.fn = "admin",
                                      !.ret = IF auth.statusCode = 429
                                              THEN "Too many requests." ELSE "null",
                                      !.retN = auth.statusCode]
                   /\ UNCHANGED proc
              ELSE IF SelectWord(words, id) = NoWord
              THEN /\ response' = [NoResponse EXCEPT !.fn = "adminRedactWord",
                                                     !.wordId = id, !.ret = "false"]
                   /\ UNCHANGED proc
              ELSE /\ proc' = [proc EXCEPT ![p] =
                                  Running(p, "adminRedactWord", "update", id, NoWord)]
                   /\ UNCHANGED response
    /\ hist' = [hist EXCEPT !.request = <<ip, token>>]
    /\ UNCHANGED <<ledger, checkouts, refunds, now, env>>

\* a minute passes
Tick ==
    /\ now < MaxMinutes
    /\ now' = now + 1
    /\ UNCHANGED <<ledger, checkouts, refunds, proc, response, hist,
                   failedAttempts, env>>

-----------------------------------------------------------------------------
(* Specification Spec: one checkout and the deliveries of its confirmation,   *)
(* handled by two slots at once                                               *)

Ok == <<"o", "k">>
Hi == <<"h", "i">>

\* the actions a client may put in a batch
CartPool ==
    {CartAction("write", NoId, Hi, PRICE_WRITE),
     CartAction("redact", 1, NoContent, PRICE_REDACT),
     CartAction("uncover", 1, NoContent, PRICE_UNCOVER),
     CartAction("redact", NoId, NoContent, PRICE_REDACT),
     CartAction("flag", 1, NoContent, 70),
     CartAction("uncover", 1, NoContent, -30)}

Carts(pool) == UNION {[1..n -> pool] : n \in 1..MaxCart}

\* the ledger after adminWriteWord("ok") (the counter is at 1), or after
\* adminInsertWordAt("ok", 1) (the counter is still at 0), and then perhaps
\* the administrator's redactWord(1)
InitLedger(seq, status) ==
    /\ hist = [InitHist EXCEPT !.published = IF seq = 1 THEN <<1>> ELSE <<>>]
    /\ words = (1 :> NewWord(Ok, status, 1, NoIntent))
    /\ word_flags = NoFlags
    /\ words_position_seq = seq
    /\ uuids = 1

InitRest ==
    /\ checkouts = <<>>
    /\ refunds = [pi \in PIs |-> <<>>]
    /\ proc = [p \in Procs |-> IdleProc]
    /\ response = NoResponse
    /\ failedAttempts = <<>>
    /\ now = 0
    /\ env = Configured

Init ==
    /\ \E seq \in {0, 1}, status \in {Visible, Redacted} : InitLedger(seq, status)
    /\ InitRest

Checkout ==
    \E actions \in Carts(CartPool) :
        CreateCheckout("pi_1", actions, SumPrices(actions))

\* the steps of a delivery that passed the guard
Delivery(p) ==
    \/ WebhookMark(p)
    \/ createPendingWord(p)
    \/ publishWord(p)
    \/ \E id \in Ids : redactWord_select(p, "webhook", id)
    \/ redactWord_update(p)
    \/ \E id \in Ids : uncoverWord_select(p, "webhook", id)
    \/ uncoverWord_update(p)
    \/ \E ok \in BOOLEAN : WebhookRefund(p, ok)
    \/ WebhookComplete(p)

Webhook ==
    \E p \in Procs : WebhookLookup(p, "pi_1") \/ WebhookSkip(p) \/ Delivery(p)

Next == Checkout \/ Webhook

Spec == Init /\ [][Next]_vars

Completed(pi) == pi \in DOMAIN checkouts /\ checkouts[pi].status = "completed"

\* C1: once the checkout is completed, a later delivery of the same event is
\* answered at the guard: the word ledger, the flag records, the checkout (its
\* status, results and refund_amount) and the refunds issued are unchanged, no
\* word is created, and the handler is done.
RedeliveryIsNoOp ==
    [][\A p \in Procs :
          (Completed("pi_1") /\ WebhookLookup(p, "pi_1")) =>
              /\ UNCHANGED <<words, word_flags, words_position_seq, uuids,
                             checkouts, refunds>>
              /\ proc'[p] = IdleProc
              /\ response'.ret = "received"]_vars

\* a delivery was answered at the guard after the batch was executed and the
\* checkout completed
RedeliveredAfterCompletion ==
    /\ Completed("pi_1")
    /\ response.at = "guard"
    /\ Len(checkouts["pi_1"].results) > 0
    /\ \E a \in DOMAIN words : words[a].pi = "pi_1"

WriteActions(actions) == {k \in 1..Len(actions) : actions[k].type = "write"}

\* C2: whatever the interleaving of two deliveries of the same event, the
\* stored batch is executed at most once: the action loop is entered at most
\* once, no write action has produced more than one word, and at most one
\* refund is issued for the checkout.
BatchExecutedAtMostOnce ==
    "pi_1" \in DOMAIN checkouts =>
        /\ hist.runs["pi_1"] <= 1
        /\ Cardinality({a \in DOMAIN words : words[a].pi = "pi_1"})
               <= Cardinality(WriteActions(checkouts["pi_1"].cart_actions))
        /\ Len(refunds["pi_1"]) <= 1

Handled(actions) == {k \in 1..Len(actions) : ~Unhandled(actions[k])}

Positive(price) == IF price > 0 THEN price ELSE 0

\* the positive prices of the actions that did not succeed: the handled actions
\* have their results in order, an action no case handled has no result
RECURSIVE RefundDue(_, _)
RefundDue(actions, results) ==
    IF actions = <<>> THEN 0
    ELSE IF Unhandled(Head(actions))
    THEN Positive(Head(actions).price) + RefundDue(Tail(actions), results)
    ELSE (IF Head(results).success THEN 0 ELSE Positive(Head(actions).price))
         + RefundDue(Tail(actions), Tail(results))

\* C6 (as the code has it): when a checkout is completed, its refund_amount is
\* the sum of the positive declared prices of the actions of the stored batch
\* that did not succeed: the guard failed, the action threw, or no case of the
\* switch handled it; it is 0 when every action was handled and succeeded.
RefundIsPriceOfUnsuccessful ==
    \A pi \in DOMAIN checkouts :
        checkouts[pi].status = "completed" =>
            LET c == checkouts[pi] IN
            /\ Len(c.results) = Cardinality(Handled(c.cart_actions))
            /\ c.refund_amount = RefundDue(c.cart_actions, c.results)
            /\ (/\ Handled(c.cart_actions) = DOMAIN c.cart_actions
                /\ \A k \in DOMAIN c.results : c.results[k].success)
               => c.refund_amount = 0

\* a completed batch with a failed action and an action no case handled, both
\* refunded
RefundedFailedAndUnhandled ==
    /\ Completed("pi_1")
    /\ checkouts["pi_1"].cart_actions =
           <<CartAction("uncover", 1, NoContent, PRICE_UNCOVER),
             CartAction("flag", 1, NoContent, 70)>>
    /\ Len(checkouts["pi_1"].results) = 1
    /\ ~checkouts["pi_1"].results[1].success
    /\ checkouts["pi_1"].refund_amount = PRICE_UNCOVER + 70

\* the declared prices of the actions that failed; an action no case handled
\* contributes nothing
RECURSIVE FailedSum(_, _)
FailedSum(actions, results) ==
    IF actions = <<>> THEN 0
    ELSE IF Unhandled(Head(actions))
    THEN FailedSum(Tail(actions), results)
    ELSE (IF Head(results).success THEN 0 ELSE Head(actions).price)
         + FailedSum(Tail(actions), Tail(results))

\* C6 (as stated): when a checkout is completed, its refund_amount is the sum
\* of the declared prices of exactly the actions that failed, and actions of an
\* unrecognised type contribute nothing.
RefundIsSumOfFailed ==
    \A pi \in DOMAIN checkouts :
        checkouts[pi].status = "completed" =>
            checkouts[pi].refund_amount =
                FailedSum(checkouts[pi].cart_actions, checkouts[pi].results)

-----------------------------------------------------------------------------
(* Specification SpecPublish: the publishes of two checkouts' write actions   *)
(* and of the administrator, in any interleaving                              *)

WriteCarts == Carts({CartAction("write", NoId, Hi, PRICE_WRITE)})

CheckoutWrites ==
    \E pi \in PIs, actions \in WriteCarts :
        CreateCheckout(pi, actions, SumPrices(actions))

WebhookWrites ==
    \E p \in Procs :
        \/ \E pi \in PIs : WebhookLookup(p, pi)
        \/ WebhookMark(p)
        \/ createPendingWord(p)
        \/ publishWord(p)
        \/ WebhookComplete(p)

AdminWrites == \E p \in Procs : adminWriteWord(p, Ok)

InitPublish == InitLedger(1, Visible) /\ InitRest

NextPublish == CheckoutWrites \/ WebhookWrites \/ AdminWrites

SpecPublish == InitPublish /\ [][NextPublish]_vars

Left(ws) == {a \in DOMAIN ws : ws[a].status # Pending}

AllSucceeded(results) == \A k \in DOMAIN results : results[k].success

\* no publish was rejected: none answered by an error, none recorded as failed
NoPublishRejected ==
    /\ response.ret \notin Errors
    /\ \A p \in Procs : AllSucceeded(proc[p].results)
    /\ \A pi \in DOMAIN checkouts : AllSucceeded(checkouts[pi].results)

\* C3: under every interleaving of publishWord and adminWriteWord, the words
\* that have left pending hold a position each and no two of them the same one,
\* and every publish got a fresh value of the counter: none was rejected for
\* a position that is taken.
PublishedPositionsDistinct ==
    /\ \A a \in Left(words) : words[a].position # NoPosition
    /\ \A a, b \in Left(words) : a # b => words[a].position # words[b].position
    /\ \A a \in Left(words) : words[a].position <= words_position_seq
    /\ NoPublishRejected

\* words of both checkouts and a word of the administrator are published
PublishedByAll ==
    /\ \E a \in Left(words) : words[a].pi = "pi_1"
    /\ \E a \in Left(words) : words[a].pi = "pi_2"
    /\ \E a \in Left(words) : a > 1 /\ words[a].pi = NoIntent

-----------------------------------------------------------------------------
(* Specification SpecPositions: publishes, the administrator's insertions at  *)
(* a position and deletions, one operation at a time                          *)

MaxPosition == 2     \* positions the administrator inserts at

InitPositions ==
    /\ hist = InitHist
    /\ words = <<>>
    /\ word_flags = NoFlags
    /\ words_position_seq = 0
    /\ uuids = 0
    /\ InitRest

CheckoutOneWrite ==
    \E pi \in PIs :
        CreateCheckout(pi, <<CartAction("write", NoId, Hi, PRICE_WRITE)>>,
                       PRICE_WRITE)

WebhookPublishes ==
    \/ \E pi \in PIs : WebhookLookup("h1", pi)
    \/ WebhookMark("h1")
    \/ createPendingWord("h1")
    \/ publishWord("h1")
    \/ \E ok \in BOOLEAN : WebhookRefund("h1", ok)
    \/ WebhookComplete("h1")

AdminInsertions ==
    \/ adminWriteWord("h1", Ok)
    \/ \E position \in 1..MaxPosition : adminInsertWordAt_shift("h1", Ok, position)
    \/ adminInsertWordAt_insert("h1")
    \/ \E position \in 1..MaxPosition : adminInsertLineBreak_select("h1", position)
    \/ adminInsertLineBreak_shift("h1")
    \/ adminInsertLineBreak_insert("h1")

AdminDeletions ==
    \/ \E id \in Ids : adminDeleteWord_select("h1", id)
    \/ adminDeleteWord_delete("h1")
    \/ adminDeleteWord_flags("h1")

NextPositions ==
    CheckoutOneWrite \/ WebhookPublishes \/ AdminInsertions \/ AdminDeletions

SpecPositions == InitPositions /\ [][NextPositions]_vars

\* C4: after any sequence of completed publishes and insertions at a position,
\* no two stored words hold the same position, and no publish got from the
\* counter a position that a word already holds (it would be rejected).
InsertionsLeaveCounterFresh ==
    /\ PositionUnique(words)
    /\ NoPublishRejected

\* C5: of two checkouts' words, the one published first has the smaller
\* position.
StoryOrderIsConfirmationOrder ==
    \A i, j \in DOMAIN hist.published :
        LET a == hist.published[i]
            b == hist.published[j]
        IN  (/\ i < j
             /\ a \in DOMAIN words /\ b \in DOMAIN words
             /\ words[a].pi # NoIntent /\ words[b].pi # NoIntent
             /\ words[a].pi # words[b].pi)
            => words[a].position < words[b].position

-----------------------------------------------------------------------------
(* Specification SpecRedact: paid redactions and uncovers of a word the       *)
(* administrator redacts, and flags of it, one operation at a time            *)

WriteHi == CartAction("write", NoId, Hi, PRICE_WRITE)
Redact1 == CartAction("redact", 1, NoContent, PRICE_REDACT)
Uncover1 == CartAction("uncover", 1, NoContent, PRICE_UNCOVER)

\* pi_1 writes a word and redacts word 1, which is visible when the checkout is
\* created; pi_2 uncovers word 1
CheckoutRedact ==
    \/ /\ SelectWord(words, 1).status = Visible
       /\ \E actions \in {<<WriteHi, Redact1>>, <<Redact1, WriteHi>>} :
              CreateCheckout("pi_1", actions, SumPrices(actions))
    \/ CreateCheckout("pi_2", <<Uncover1>>, PRICE_UNCOVER)

WebhookRedact == (\E pi \in PIs : WebhookLookup("h1", pi)) \/ Delivery("h1")

AdminRedact ==
    \/ redactWord_select("h1", "route", 1)
    \/ adminRedactWord_select("h1", 1)
    \/ adminRedactWord_update("h1")
    \/ adminUncoverWord_select("h1", 1)
    \/ adminUncoverWord_update("h1")

UserFlags ==
    \/ flagWord_select("h1", 1, "fp_a")
    \/ flagWord_existing("h1")
    \/ flagWord_count("h1")
    \/ flagWord_insert("h1")
    \/ flagWord_update("h1")

InitRedact == InitLedger(1, Visible) /\ InitRest

NextRedact == CheckoutRedact \/ WebhookRedact \/ AdminRedact \/ UserFlags

SpecRedact == InitRedact /\ [][NextRedact]_vars

\* the redact of checkout pi read the word in one of statuses
RedactSaw(pi, statuses) ==
    \E k \in DOMAIN hist.seen :
        hist.seen[k].pi = pi /\ hist.seen[k].status \in statuses

\* C7: a batch of one write and one redact on word 1, visible when the
\* checkout was created; the administrator has redacted the word (by redactWord
\* or by adminRedactWord) before the confirmation.  Then, once completed, the
\* write is applied, the redact has failed with a reason, refund_amount is the
\* redact's price and the results hold one success and one failure.
StaleRedactIsRefunded ==
    (Completed("pi_1") /\ RedactSaw("pi_1", {Redacted, AdminRedacted})) =>
        LET c == checkouts["pi_1"] IN
        /\ \E a \in Left(words) : words[a].pi = "pi_1"
        /\ Len(c.results) = 2
        /\ \A k \in 1..2 :
               /\ c.results[k].type = c.cart_actions[k].type
               /\ c.results[k].success = (c.results[k].type = "write")
               /\ c.results[k].type = "redact" => c.results[k].reason # ""
        /\ c.refund_amount = PRICE_REDACT

\* C10: a word that the administrator has put in admin_redacted, and has not
\* changed since, is neither visible nor flagged, and the story read does not
\* disclose its content, whatever the paid redacts and uncovers and the flags
\* since.
AdminRedactionHolds ==
    \A k \in DOMAIN getStory(words) :
        LET w == getStory(words)[k] IN
        w.id \in hist.locked =>
            w.status \notin {Visible, Flagged} /\ w.content = NullContent

-----------------------------------------------------------------------------
(* Specifications SpecFlags and SpecCeiling: flags of one word by two         *)
(* fingerprints, with a redaction and an uncover of the word (SpecFlags) or   *)
(* with the administrator's flags and unflags (SpecCeiling), in any           *)
(* interleaving of two slots                                                  *)

Flags ==
    \E p \in Procs :
        \/ \E fp \in Fingerprints : flagWord_select(p, 1, fp)
        \/ flagWord_existing(p)
        \/ flagWord_count(p)
        \/ flagWord_insert(p)
        \/ flagWord_update(p)

AdminFlags ==
    \E p \in Procs :
        \/ adminFlagWord_select(p, 1)
        \/ adminFlagWord_update(p)
        \/ adminUnflagWord_select(p, 1)
        \/ adminUnflagWord_update(p)

RedactAndUncover ==
    \E p \in Procs :
        \/ redactWord_select(p, "route", 1)
        \/ redactWord_update(p)
        \/ adminUncoverWord_select(p, 1)
        \/ adminUncoverWord_update(p)

InitFlags == InitLedger(1, Visible) /\ InitRest

NextFlags == Flags \/ RedactAndUncover

SpecFlags == InitFlags /\ [][NextFlags]_vars

NextCeiling == Flags \/ AdminFlags

SpecCeiling == InitFlags /\ [][NextCeiling]_vars

\* C8: for every word and fingerprint, at most one flag record exists for the
\* pair, and the calls of flagWord with the pair have raised flag_count by at
\* most 1 in total, also after the word was redacted and uncovered.
FlagOncePerFingerprint ==
    \A f \in Ids \X Fingerprints :
        word_flags[f] <= 1 /\ hist.raised[f] <= 1

\* fp_a has flagged word 1, the word was redacted and uncovered since (it is
\* visible, its flag_count is 0 again), and flagWord has answered null to fp_a
FlagRefusedAfterUncover ==
    /\ hist.raised[<<1, "fp_a">>] = 1
    /\ word_flags[<<1, "fp_a">>] = 1
    /\ words[1].status = Visible /\ words[1].flag_count = 0
    /\ response.fn = "flagWord" /\ response.fp = "fp_a"
    /\ response.ret = "null"
    /\ \A p \in Procs : Idle(p)

\* C9: in every reachable state every word's flag_count is between 0 and 20,
\* and no flag or unflag was rejected for leaving that range.
FlagCountInRange ==
    /\ \A a \in DOMAIN words :
           words[a].flag_count >= 0 /\ words[a].flag_count <= MAX_FLAG_COUNT
    /\ response.ret # "error_flag_count"

\* the administrator has flagged a word that is at the ceiling
FlaggedAtCeiling ==
    /\ words[1].flag_count = MAX_FLAG_COUNT
    /\ response.fn = "adminFlagWord" /\ response.ret = "true"
    /\ \A p \in Procs : Idle(p)
    /\ hist.raised[<<1, "fp_a">>] = 1 /\ hist.raised[<<1, "fp_b">>] = 1

-----------------------------------------------------------------------------
(* The user-level uncover and redact, one operation at a time (SpecRedact) *)

\* the result the webhook's loop has recorded last
LastResult(pr) == pr.results[Len(pr.results)]

\* C11: uncoverWord goes on to its UPDATE only when the word it read is
\* redacted; on an admin_redacted word, and on any other status, it returns
\* false and changes nothing.  Its UPDATE makes the word visible and it returns
\* true; redactWord on a visible word goes on to its UPDATE, which makes the
\* word redacted and returns true (so redact, uncover, redact on a visible
\* word succeeds at every step and ends with the word redacted).
UncoverOnlyWhenRedacted ==
    [][/\ \A id \in Ids :
              uncoverWord_select("h1", "webhook", id) =>
                  /\ UNCHANGED <<words, word_flags, words_position_seq>>
                  /\ IF SelectWord(words, id).status = Redacted
                     THEN proc'["h1"].fn = "uncoverWord"
                     ELSE /\ proc'["h1"].fn = "none"
                          /\ ~LastResult(proc'["h1"]).success
                          /\ proc'["h1"].refundTotal =
                                 proc["h1"].refundTotal + PRICE_UNCOVER
       /\ uncoverWord_update("h1") =>
              /\ words'[proc["h1"].wordId].status = Visible
              /\ LastResult(proc'["h1"]).success
       /\ \A id \in Ids :
              (redactWord_select("h1", "webhook", id)
                  /\ SelectWord(words, id).status = Visible) =>
                  proc'["h1"].fn = "redactWord"
       /\ (redactWord_update("h1") /\ InWebhook("h1")) =>
              /\ words'[proc["h1"].wordId].status = Redacted
              /\ LastResult(proc'["h1"]).success]_vars

\* a paid uncover of the admin_redacted word 1 has failed: the word is still
\* admin_redacted, the result is a failure and the price is refunded
UncoverOfAdminRedactedFailed ==
    /\ Completed("pi_2")
    /\ RedactSaw("pi_2", {AdminRedacted})
    /\ ~checkouts["pi_2"].results[1].success
    /\ checkouts["pi_2"].refund_amount = PRICE_UNCOVER
    /\ words[1].status = AdminRedacted
    /\ 1 \in hist.locked

-----------------------------------------------------------------------------
(* Specification SpecProtect: a word the administrator protects, a paid       *)
(* redact of it and flags of it, one operation at a time.  adminProtectWord   *)
(* is imported by the admin route from words.ts, which does not hold it: it   *)
(* is modelled from the specification (visible / flagged -> protected).       *)

adminProtectWordRejects(word) ==
    word = NoWord \/ word.status \notin {Visible, Flagged}

adminProtectWord_select(p, id) ==
    AdminSelect(p, "adminProtectWord", id,
                adminProtectWordRejects(SelectWord(words, id)))

\* the specification does not say whether flag_count is reset: either
adminProtectWord_update(p) ==
    /\ proc[p].fn = "adminProtectWord" /\ proc[p].pc = "update"
    /\ \E reset \in BOOLEAN :
           LET id == proc[p].wordId
               new == IF reset \/ id \notin DOMAIN words
                      THEN SetStatusResetFlags(words, id, Protected)
                      ELSE [words EXCEPT ![id].status = Protected]
           IN  words' = new /\ hist' = Locked(new)
    /\ Return(p, "adminProtectWord", proc[p].wordId, "true", 0)
    /\ UNCHANGED <<word_flags, words_position_seq, uuids, checkouts, refunds>>

AdminProtect ==
    \/ adminProtectWord_select("h1", 1)
    \/ adminProtectWord_update("h1")
    \/ adminFlagWord_select("h1", 1)
    \/ adminFlagWord_update("h1")

CheckoutProtect == CreateCheckout("pi_1", <<Redact1>>, PRICE_REDACT)

WebhookProtect ==
    \/ WebhookLookup("h1", "pi_1")
    \/ WebhookMark("h1")
    \/ redactWord_select("h1", "webhook", 1)
    \/ redactWord_update("h1")
    \/ WebhookComplete("h1")

NextProtect == AdminProtect \/ CheckoutProtect \/ WebhookProtect \/ UserFlags

SpecProtect == InitRedact /\ [][NextProtect]_vars

\* C12: while word 1 is protected, no step of a paid redactWord and no step
\* of flagWord changes the word: its status and its flag_count stay, and the
\* function does not succeed.
ProtectedIsImmune ==
    [][(/\ words[1].status = Protected
        /\ \/ redactWord_select("h1", "webhook", 1) \/ redactWord_update("h1")
           \/ flagWord_select("h1", 1, "fp_a") \/ flagWord_existing("h1")
           \/ flagWord_count("h1") \/ flagWord_insert("h1")
           \/ flagWord_update("h1"))
       => /\ words' = words
          /\ proc'["h1"].fn \notin {"redactWord", "flagWord"}]_vars

-----------------------------------------------------------------------------
(* Specification SpecStory: the story and the stored words under publishes,   *)
(* insertions at a position and redactions, one operation at a time           *)

StoryRedactions ==
    \/ \E id \in 1..2 : redactWord_select("h1", "route", id)
    \/ redactWord_update("h1")
    \/ adminRedactWord_select("h1", 2)
    \/ adminRedactWord_update("h1")
    \/ adminRemoveWord_select("h1", 1)
    \/ adminRemoveWord_update("h1")

StoryInsertions ==
    \/ adminInsertWordAt_shift("h1", Ok, 1)
    \/ adminInsertWordAt_insert("h1")
    \/ adminInsertLineBreak_select("h1", MaxPosition)
    \/ adminInsertLineBreak_shift("h1")
    \/ adminInsertLineBreak_insert("h1")

NextStory ==
    CheckoutOneWrite \/ WebhookPublishes \/ StoryInsertions \/ StoryRedactions

SpecStory == InitPositions /\ [][NextStory]_vars

Hidden == {Redacted, AdminRedacted, AdminRemoved}

\* C13: getStory returns exactly the words that are not pending, each once, in
\* ascending position order; a returned word's content is null exactly when its
\* status is redacted, admin_redacted or admin_removed and is the stored
\* content otherwise; content_length is the length of the stored content.
StoryReadIsFaithful ==
    LET story == getStory(words) IN
    /\ {story[k].id : k \in DOMAIN story} = Left(words)
    /\ Len(story) = Cardinality(Left(words))
    /\ \A k \in DOMAIN story :
           LET w == story[k] IN
           /\ k > 1 => story[k - 1].position < w.position
           /\ w.position = words[w.id].position
           /\ w.status = words[w.id].status
           /\ (w.content = NullContent) <=> (w.status \in Hidden)
           /\ w.status \notin Hidden => w.content = words[w.id].content
           /\ w.content_length = Len(words[w.id].content)

\* a story of three words that are not in the order they were stored in, one
\* of them withheld with its length shown, while a fourth word is pending
StoryWithHiddenWord ==
    LET story == getStory(words) IN
    /\ Len(story) = 3
    /\ story[1].id > story[2].id
    /\ \E k \in 1..3 : story[k].content = NullContent /\ story[k].content_length = 2
    /\ \E k \in 1..3 : story[k].content = Ok
    /\ \E a \in DOMAIN words : words[a].status = Pending

\* C14 (as the code has it): every stored word keeps its content, whatever its
\* status: the word written (pending, visible, flagged, redacted,
\* admin_redacted, admin_removed) or the line feed of a line break; only the
\* story read withholds it.
StoredContentIsKept ==
    \A a \in DOMAIN words :
        /\ words[a].content # NoContent
        /\ words[a].status = LineBreak => words[a].content = LineBreakContent

\* a redacted word and a pending word, both with their content stored
RedactedAndPendingHoldContent ==
    /\ \E a \in DOMAIN words : words[a].status = Redacted /\ words[a].content = Ok
    /\ \E a \in DOMAIN words : words[a].status = Pending /\ words[a].content = Hi
    /\ \E a \in DOMAIN words : words[a].status = LineBreak

\* C14 (as stated): a word record's content is null if and only if its status
\* is pending, redacted, admin_redacted, admin_removed or linebreak.
ContentNullIffUndisclosed ==
    \A a \in DOMAIN words :
        (words[a].content = NoContent)
            <=> (words[a].status \in Hidden \cup {Pending, LineBreak})

-----------------------------------------------------------------------------
(* Specification SpecCheckout: checkout requests, statement by statement,     *)
(* with batches the validator accepts and batches it rejects                  *)

RequestPool ==
    {WriteHi,
     CartAction("write", NoId, <<"4">>, PRICE_WRITE),
     CartAction("write", NoId, NoContent, PRICE_WRITE),
     Redact1,
     Uncover1,
     CartAction("redact", 2, NoContent, 30)}

RequestCarts == UNION {[1..n -> RequestPool] : n \in 0..MaxCart}

\* the total the client declares: the sum of the prices, or another amount
Totals(actions) ==
    IF Len(actions) = 1 THEN {SumPrices(actions), STRIPE_MINIMUM}
    ELSE {SumPrices(actions)}

CheckoutRequests ==
    \/ \E actions \in RequestCarts :
          \E totalAmount \in Totals(actions) :
              checkout_validate("h1", actions, totalAmount)
    \/ \E ok \in BOOLEAN :
          checkout_createPaymentIntent("h1", "pi_1", ok)
    \/ checkout_insert("h1")

NextCheckout == CheckoutRequests

SpecCheckout == InitRedact /\ [][NextCheckout]_vars

BothOnOneWord(actions) ==
    \E a, b \in DOMAIN actions, id \in Ids :
        /\ actions[a].type = "redact" /\ actions[a].wordId = id
        /\ actions[b].type = "uncover" /\ actions[b].wordId = id

\* a step of checkout_validate, which is the only statement of this
\* specification that an idle handler runs: it accepts the batch (the handler
\* goes on, holding it) or rejects it (the handler ends)
Validates(p) == Idle(p) /\ (proc'[p] # proc[p] \/ response' # response)

Accepts(p) == Validates(p) /\ proc'[p].handler = "checkout"

NothingCreated(p) ==
    /\ hist'.intents = hist.intents
    /\ checkouts' = checkouts
    /\ proc'[p] = IdleProc
    /\ response'.fn = "checkout" /\ response'.retN = 400

\* C15: a checkout request whose batch has a redact and an uncover of the same
\* word id is never accepted by the validation step: every batch that step
\* lets through is free of such a pair, and the step that rejects ends the
\* handler with no payment intent created and no checkout stored.
ConflictRejectedBeforeIntent ==
    [][/\ Accepts("h1") => ~BothOnOneWord(proc'["h1"].actions)
       /\ (Validates("h1") /\ ~Accepts("h1")) => NothingCreated("h1")]_vars

\* a conflicting batch was rejected after another batch was accepted and stored
ConflictWasRejected ==
    /\ response.fn = "checkout"
    /\ response.ret = "Conflicting actions on word."
    /\ Cardinality(hist.intents) = 1
    /\ DOMAIN checkouts = hist.intents
    /\ \A p \in Procs : Idle(p)

Rejectable(actions) ==
    \/ Len(actions) = 0
    \/ \E k \in DOMAIN actions :
           /\ actions[k].type = "write"
           /\ \/ actions[k].wordContent = NoContent
              \/ validateWord(actions[k].wordContent) # "valid"
    \/ BothOnOneWord(actions)
    \/ SumPrices(actions) < STRIPE_MINIMUM

\* C16: a batch that is empty, has a write with invalid content, has a
\* redact/uncover conflict or whose prices sum to less than the minimum is
\* never accepted (every batch the validation step lets through has none of
\* these), and its rejection creates no payment intent and stores no
\* checkout; once the intent of an accepted batch is created, the INSERT stores
\* exactly one checkout, pending, holding the batch, under the intent's id.
RejectedWholeOrStoredOnce ==
    [][/\ Accepts("h1")
            => /\ ~Rejectable(proc'["h1"].actions)
               /\ proc'["h1"].pc = "intent"
               /\ checkouts' = checkouts
               /\ hist'.intents = hist.intents
       /\ (Validates("h1") /\ ~Accepts("h1"))
            => /\ NothingCreated("h1")
               /\ response'.ret \in
                      {"Cart is empty.", "Write action requires word content.",
                       "Word contains disallowed characters.",
                       "Conflicting actions on word.",
                       "Cart total must be at least $0.50."}
       /\ LET p == "h1" IN
            checkout_insert(p)
                => /\ proc[p].pi \in hist.intents
                   /\ proc[p].pi \notin DOMAIN checkouts
                   /\ DOMAIN checkouts' = DOMAIN checkouts \cup {proc[p].pi}
                   /\ \A pi \in DOMAIN checkouts : checkouts'[pi] = checkouts[pi]
                   /\ checkouts'[proc[p].pi].status = "pending"
                   /\ checkouts'[proc[p].pi].cart_actions = proc[p].actions
                   /\ response'.retN = 200]_vars

\* a batch below the minimum was rejected while the only intent created has
\* its one pending checkout
StoredOnceThenRejected ==
    /\ response.fn = "checkout"
    /\ response.ret = "Cart total must be at least $0.50."
    /\ Cardinality(hist.intents) = 1
    /\ \A pi \in hist.intents :
           pi \in DOMAIN checkouts /\ checkouts[pi].status = "pending"
    /\ \A p \in Procs : Idle(p)

-----------------------------------------------------------------------------
(* Specification SpecContain: callbacks from their first line, for a checkout *)
(* one of whose writes is rejected by the UNIQUE constraint on position when  *)
(* the ledger is the one adminInsertWordAt("ok", 1) leaves (counter still 0)  *)

Signatures == {"missing", "invalid", "valid"}

EventTypes == {"payment_intent.succeeded", "payment_intent.payment_failed"}

InitContain == (\E seq \in {0, 1} : InitLedger(seq, Visible)) /\ InitRest

CheckoutContain ==
    \E actions \in {<<WriteHi, Redact1>>, <<WriteHi, WriteHi>>, <<Redact1, WriteHi>>} :
        CreateCheckout("pi_1", actions, SumPrices(actions))

DeliveryContain(p) ==
    \/ WebhookMark(p)
    \/ createPendingWord(p)
    \/ publishWord(p)
    \/ redactWord_select(p, "webhook", 1)
    \/ redactWord_update(p)
    \/ \E ok \in BOOLEAN : WebhookRefund(p, ok)
    \/ WebhookComplete(p)

Callbacks ==
    \E signature \in Signatures, type \in EventTypes, pi \in PIs :
        WebhookReceive("h1", signature, type, pi)

NextContain == CheckoutContain \/ Callbacks \/ DeliveryContain("h1")

SpecContain == InitContain /\ [][NextContain]_vars

\* a handler that entered the loop runs on to its end
SpecContainFair == SpecContain /\ WF_vars(DeliveryContain("h1"))

\* C17: a callback whose signature is missing or does not verify, or whose
\* event type is not payment_intent.succeeded, or whose payment intent has no
\* checkout, is answered at once: the words, the flag records, the position
\* counter, every checkout and the refunds issued are unchanged and the
\* handler is done.
IgnoredCallbackChangesNothing ==
    [][\A signature \in Signatures, type \in EventTypes, pi \in PIs :
          (/\ WebhookReceive("h1", signature, type, pi)
           /\ \/ signature # "valid"
              \/ type # "payment_intent.succeeded"
              \/ pi \notin DOMAIN checkouts)
              => /\ UNCHANGED <<words, word_flags, words_position_seq, uuids>>
                 /\ UNCHANGED <<checkouts, refunds>>
                 /\ proc'["h1"] = IdleProc
                 /\ response'.fn = "webhook" /\ response'.at = "guard"]_vars

\* a callback was answered with the signature error while the checkout of
\* pi_1 is still pending, nothing is refunded and no word was written
CallbackRejectedCheckoutPending ==
    /\ response.fn = "webhook"
    /\ response.ret = "Webhook processing failed."
    /\ checkoutIsPending(checkouts, "pi_1")
    /\ refunds["pi_1"] = <<>>
    /\ DOMAIN words = {1}

GenericReason == "Internal error processing action."

Threw(pr) ==
    /\ pr.handler = "webhook"
    /\ \E k \in DOMAIN pr.results : pr.results[k].reason = GenericReason

\* C18: when an action of the batch throws (the publish is rejected by the
\* UNIQUE constraint), the loop records it as failed with the generic reason,
\* adds its price to the refund and goes on to the next action; every action of
\* a handler that threw is attempted and its checkout reaches completed.
FailureIsContained ==
    /\ [][(publishWord("h1") /\ ~WordsConstraints(
                PublishUpdate(words, proc["h1"].wordId, nextval(words_position_seq))))
            => /\ proc'["h1"].i = proc["h1"].i + 1
               /\ proc'["h1"].pc = "loop"
               /\ proc'["h1"].results =
                      Append(proc["h1"].results,
                             [type |-> "write", wordId |-> NoId, success |-> FALSE,
                              reason |-> GenericReason])
               /\ proc'["h1"].refundTotal =
                      proc["h1"].refundTotal + CurAction("h1").price
               /\ UNCHANGED checkouts]_vars
    /\ (Threw(proc["h1"])
           ~> /\ Completed("pi_1")
              /\ Len(checkouts["pi_1"].results) = Len(checkouts["pi_1"].cart_actions)
              /\ \E k \in DOMAIN checkouts["pi_1"].results :
                     checkouts["pi_1"].results[k].reason = GenericReason)

\* the first write threw, the second write of the same batch was published,
\* and the checkout is completed with the price of the first as its refund
SecondWriteAfterThrow ==
    /\ Completed("pi_1")
    /\ checkouts["pi_1"].cart_actions = <<WriteHi, WriteHi>>
    /\ checkouts["pi_1"].results[1].reason = GenericReason
    /\ checkouts["pi_1"].results[2].success
    /\ checkouts["pi_1"].refund_amount = PRICE_WRITE
    /\ \E a \in DOMAIN words : words[a].status = Visible /\ words[a].content = Hi

RefundFailed(pi) == refunds[pi] = <<>>

\* C19: when issuePartialRefund fails, the step changes nothing but the
\* handler's position; the completion that follows keeps the words as the
\* batch left them and stores status completed with the refund total computed
\* by the loop and the results of the actions; the words written and redacted
\* by the successful actions are still so in the completed state.
FailedRefundStillCompletes ==
    /\ [][/\ WebhookRefund("h1", FALSE)
              => /\ UNCHANGED <<ledger, checkouts, refunds>>
                 /\ proc'["h1"] = [proc["h1"] EXCEPT !.pc = "complete"]
          /\ (WebhookComplete("h1") /\ proc["h1"].pc = "complete"
                  /\ RefundFailed(proc["h1"].pi))
              => /\ UNCHANGED <<ledger, refunds>>
                 /\ checkouts'[proc["h1"].pi].status = "completed"
                 /\ checkouts'[proc["h1"].pi].refund_amount = proc["h1"].refundTotal
                 /\ checkouts'[proc["h1"].pi].results = proc["h1"].results
                 /\ proc["h1"].refundTotal > 0]_vars
    /\ [](\A pi \in DOMAIN checkouts :
             (Completed(pi) /\ checkouts[pi].refund_amount > 0 /\ RefundFailed(pi))
                 => \A k \in DOMAIN checkouts[pi].results :
                        LET r == checkouts[pi].results[k] IN
                        r.success =>
                            /\ r.wordId \in DOMAIN words
                            /\ r.type = "write" => words[r.wordId].status = Visible
                            /\ r.type = "redact" => words[r.wordId].status = Redacted)

\* the write threw, the redaction was applied, the refund of the write's price
\* failed, and the checkout is completed with that refund_amount
CompletedWithUnissuedRefund ==
    /\ Completed("pi_1")
    /\ checkouts["pi_1"].cart_actions = <<WriteHi, Redact1>>
    /\ checkouts["pi_1"].refund_amount = PRICE_WRITE
    /\ Len(checkouts["pi_1"].results) = 2
    /\ RefundFailed("pi_1")
    /\ words[1].status = Redacted

-----------------------------------------------------------------------------
(* Specification SpecRate: flagWord calls, one at a time, by a fingerprint    *)
(* that is close to the limit of 100 flag records                             *)

\* The ledger has more words than the MaxWords the model follows one by one.
\* The flag records a fingerprint holds on those other words (one per word)
\* are kept as one tally, under a key that is no word id of the model.
Elsewhere == MaxWords + 1

\* words 1 and 2 are visible; fp_a has flagged `tally` of the other words
InitRate ==
    /\ \E tally \in {FLAG_RATE_LIMIT - 2, FLAG_RATE_LIMIT - 1} :
           word_flags = [f \in (Ids \cup {Elsewhere}) \X Fingerprints |->
                            IF f = <<Elsewhere, "fp_a">> THEN tally ELSE 0]
    /\ words = (1 :> NewWord(Ok, Visible, 1, NoIntent))
                @@ (2 :> NewWord(Hi, Visible, 2, NoIntent))
    /\ words_position_seq = 2
    /\ uuids = 2
    /\ hist = [InitHist EXCEPT !.published = <<1, 2>>]
    /\ InitRest

FlagsRate ==
    \/ \E id \in Ids, fp \in Fingerprints : flagWord_select("h1", id, fp)
    \/ flagWord_existing("h1")
    \/ flagWord_count("h1")
    \/ flagWord_insert("h1")
    \/ flagWord_update("h1")

NextRate == FlagsRate

SpecRate == InitRate /\ [][NextRate]_vars

\* C20: a flagWord call by a fingerprint that holds 100 flag records changes
\* no word and inserts no flag record at any of its statements, and its count
\* statement ends the call with null (the route answers 429).
RateLimitedFlagChangesNothing ==
    [][\A fp \in Fingerprints :
          (/\ CountFlags(word_flags, fp) >= FLAG_RATE_LIMIT
           /\ \/ \E id \in Ids : flagWord_select("h1", id, fp)
              \/ /\ proc["h1"].fp = fp
                 /\ \/ flagWord_existing("h1")
                    \/ flagWord_count("h1")
                    \/ flagWord_insert("h1"))
              => /\ UNCHANGED <<words, word_flags>>
                 /\ flagWord_count("h1")
                        => /\ proc'["h1"] = IdleProc
                           /\ response'.fn = "flagWord"
                           /\ response'.ret = "null"]_vars

\* fp_a holds 100 flag records and its call on a visible word it has not
\* flagged was answered null: the word has no flag of fp_a and flag_count 0
FlagRefusedAtLimit ==
    /\ response.fn = "flagWord" /\ response.ret = "null" /\ response.fp = "fp_a"
    /\ CountFlags(word_flags, "fp_a") = FLAG_RATE_LIMIT
    /\ response.wordId \in DOMAIN words
    /\ word_flags[<<response.wordId, "fp_a">>] = 0
    /\ words[response.wordId].status = Visible
    /\ words[response.wordId].flag_count = 0

-----------------------------------------------------------------------------
(* Specification SpecAtCeiling: flags by users and by the administrator on    *)
(* one word, up to the ceiling of 20, with the word redacted at some point    *)

FlagsAtCeiling ==
    \/ \E fp \in Fingerprints : flagWord_select("h1", 1, fp)
    \/ flagWord_existing("h1")
    \/ flagWord_count("h1")
    \/ flagWord_insert("h1")
    \/ flagWord_update("h1")
    \/ adminFlagWord_select("h1", 1)
    \/ adminFlagWord_update("h1")
    \/ redactWord_select("h1", "route", 1)
    \/ redactWord_update("h1")

NextAtCeiling == FlagsAtCeiling

SpecAtCeiling == InitFlags /\ [][NextAtCeiling]_vars

CeilingAnswer(fp, ret) ==
    (flagWord_select("h1", 1, fp) /\ words[1].flag_count >= MAX_FLAG_COUNT)
        => /\ UNCHANGED <<words, word_flags>>
           /\ proc'["h1"] = IdleProc
           /\ response'.fn = "flagWord"
           /\ response'.ret = ret
           /\ ret = "count" => response'.retN = words[1].flag_count

-----------------------------------------------------------------------------
(* Specification SpecAdmin: requests to POST /api/admin with action
   admin_redact, from the allowed address and from another one, with the right
   token and a wrong one, under each configuration, while the clock runs *)

Addresses == {"ip_admin", "ip_other"}
Tokens == {"secret", "wrong"}
Envs == {Configured,
         [Configured EXCEPT !.ADMIN_ALLOWED_IP = ""],
         [Configured EXCEPT !.ADMIN_SECRET_TOKEN = ""]}

InitAdmin ==
    /\ InitLedger(1, Visible)
    /\ checkouts = <<>>
    /\ refunds = [pi \in PIs |-> <<>>]
    /\ proc = [p \in Procs |-> IdleProc]
    /\ response = NoResponse
    /\ failedAttempts = <<>>
    /\ now = 0
    /\ env \in Envs

AdminRequests ==
    \E ip \in Addresses, token \in Tokens, id \in 1..2 : AdminPost("h1", ip, token, id)

NextAdmin == AdminRequests \/ adminRedactWord_update("h1") \/ Tick

SpecAdmin == InitAdmin /\ [][NextAdmin]_vars

\* the request satisfies all that authorization asks for
Entitled(ip, token) ==
    configured(env) /\ ip = env.ADMIN_ALLOWED_IP /\ token = env.ADMIN_SECRET_TOKEN

\* the request comes from the allowed address while that address is blocked
Throttled(ip) ==
    /\ configured(env) /\ ip = env.ADMIN_ALLOWED_IP
    /\ atLimit(failedAttempts, ip)
    /\ DateNow(now) < failedAttempts[ip].blockedUntil

\* the step answered 404 or 429 and started nothing
Refused(code) ==
    /\ response'.fn = "admin" /\ response'.retN = code
    /\ proc' = proc
    /\ UNCHANGED ledger

\* the step went on to adminRedactWord
Admitted == proc' # proc \/ response'.fn = "adminRedactWord"

GateOutcome(ip, token, id, throttledCode) ==
    AdminPost("h1", ip, token, id)
        => /\ Admitted => Entitled(ip, token)
           /\ ~Entitled(ip, token)
                 => Refused(IF Throttled(ip) THEN throttledCode ELSE 404)

\* C22 (as the code has it): a request to the admin endpoint is authorized only
\* if both the allowed address and the secret token are configured, the caller's
\* address is the allowed one and the token is the secret.  A request that lacks
\* any of these is answered and changes no ledger table and starts no mutation;
\* its answer is 404, except that a wrong token from the allowed address while
\* that address is blocked is answered 429.
UnauthorizedIsRefused ==
    [][\A ip \in Addresses, token \in Tokens, id \in 1..2 :
          GateOutcome(ip, token, id, 429)]_vars

\* a right token from another address was answered 404 and the word is untouched
WrongAddressGot404 ==
    /\ hist.request = <<"ip_other", "secret">>
    /\ env = Configured
    /\ response.fn = "admin" /\ response.retN = 404
    /\ Idle("h1")
    /\ words[1].status = Visible

\* C22 (as stated): every request with a wrong address, a wrong token or a
\* missing configuration is answered 404.
UnauthorizedIs404 ==
    [][\A ip \in Addresses, token \in Tokens, id \in 1..2 :
          GateOutcome(ip, token, id, 404)]_vars

\* the request's token is wrong and the token check is reached
TokenFailure(ip, token) ==
    /\ configured(env) /\ ip = env.ADMIN_ALLOWED_IP
    /\ ~Throttled(ip)
    /\ token # env.ADMIN_SECRET_TOKEN

ThrottleOutcome(ip, token, id) ==
    AdminPost("h1", ip, token, id)
        => /\ TokenFailure(ip, token)
                 => /\ failedAttempts'[ip].count =
                          (IF atLimit(failedAttempts, ip) THEN 0
                           ELSE Attempts(failedAttempts, ip).count) + 1
                    /\ failedAttempts'[ip].count = MAX_FAILURES
                          => failedAttempts'[ip].blockedUntil =
                                 DateNow(now) + BLOCK_DURATION_MS
           /\ Throttled(ip)
                 => Refused(429) /\ UNCHANGED failedAttempts
           /\ ( /\ Entitled(ip, token)
                /\ atLimit(failedAttempts, ip)
                /\ ~Throttled(ip) )
                 => Admitted /\ ip \notin DOMAIN failedAttempts'

\* C23: the third token failure of the allowed address blocks it for
\* BLOCK_DURATION_MS from that failure; while the block lasts every request from
\* the address, the right token included, is answered 429 and leaves the
\* counter alone; at the first request after the block ended the counter is
\* deleted, and with the right token that request is authorized.
BlockedThenCleared ==
    [][\A ip \in Addresses, token \in Tokens, id \in 1..2 :
          ThrottleOutcome(ip, token, id)]_vars

\* the right token from the allowed address was answered 429 during the block
RightTokenGot429 ==
    /\ hist.request = <<"ip_admin", "secret">>
    /\ response.fn = "admin" /\ response.retN = 429
    /\ failedAttempts["ip_admin"].count = MAX_FAILURES
    /\ DateNow(now) < failedAttempts["ip_admin"].blockedUntil
    /\ words[1].status = Visible

-----------------------------------------------------------------------------
(* Specification SpecBatch: a checkout request, validated and stored with the
   total the client declares, then callbacks for its payment reference and the
   delivery that executes the batch *)

RedactNoWord == CartAction("redact", NoId, NoContent, PRICE_REDACT)

BatchPool == {WriteHi, Redact1, Uncover1, RedactNoWord}

\* the total the client declares: the sum of the prices, or the minimum
BatchTotals(actions) == {SumPrices(actions), STRIPE_MINIMUM}

InitBatch ==
    /\ \E status \in {Visible, Redacted} : InitLedger(1, status)
    /\ InitRest

CheckoutBatch ==
    \/ \E actions \in Carts(BatchPool) :
          \E totalAmount \in BatchTotals(actions) :
              checkout_validate("h1", actions, totalAmount)
    \/ checkout_createPaymentIntent("h1", "pi_1", TRUE)
    \/ checkout_insert("h1")

CallbacksBatch ==
    \E type \in EventTypes : WebhookReceive("h1", "valid", type, "pi_1")

NextBatch == CheckoutBatch \/ CallbacksBatch \/ WebhookSkip("h1") \/ Delivery("h1")

SpecBatch == InitBatch /\ [][NextBatch]_vars

\* the results list has one entry per action of the batch, in the same order
OneResultPerAction(actions, results) ==
    /\ Len(results) = Len(actions)
    /\ \A k \in 1..Len(actions) :
          /\ results[k].type = actions[k].type
          /\ actions[k].wordId # NoId => results[k].wordId = actions[k].wordId

\* the results are those of the handled actions, in the order of the batch
RECURSIVE ResultsFollow(_, _)
ResultsFollow(actions, results) ==
    IF actions = <<>> THEN results = <<>>
    ELSE IF Unhandled(Head(actions)) THEN ResultsFollow(Tail(actions), results)
    ELSE /\ results # <<>>
         /\ Head(results).type = Head(actions).type
         /\ Head(actions).wordId # NoId => Head(results).wordId = Head(actions).wordId
         /\ ResultsFollow(Tail(actions), Tail(results))

\* of two successful writes in the results, the earlier has the lower position
EarlierWriteLower(results) ==
    \A j, k \in 1..Len(results) :
        ( /\ j < k
          /\ results[j].type = "write" /\ results[j].success
          /\ results[k].type = "write" /\ results[k].success
          /\ results[j].wordId \in DOMAIN words
          /\ results[k].wordId \in DOMAIN words )
            => words[results[j].wordId].position < words[results[k].wordId].position

\* what holds of the order: the results follow the handled actions of the
\* batch, and an earlier write has the lower position
HandledActionsInOrder ==
    Completed("pi_1") =>
        /\ ResultsFollow(checkouts["pi_1"].cart_actions, checkouts["pi_1"].results)
        /\ EarlierWriteLower(checkouts["pi_1"].results)

\* C24: the completed checkout's results hold one entry per action of the
\* stored batch, in submission order, and an earlier write of the batch has a
\* lower position than a later write of the same batch.
ResultsMatchBatch ==
    Completed("pi_1") =>
        /\ OneResultPerAction(checkouts["pi_1"].cart_actions,
                              checkouts["pi_1"].results)
        /\ EarlierWriteLower(checkouts["pi_1"].results)

\* no delivery has passed the guard for pi, before or after the step
Unconfirmed(pi) == hist.runs[pi] = 0 /\ hist'.runs[pi] = 0

\* C25: as long as no 'payment succeeded' confirmation for the checkout's
\* payment reference is being processed, no step (the checkout request's
\* statements and callbacks of other types among them) changes the words, the
\* flag records or the position counter; the stored checkout is pending and no
\* word carries its payment reference.  A callback of another type starts no
\* processing.
PendingUntilConfirmed ==
    [][/\ Unconfirmed("pi_1")
           => /\ UNCHANGED ledger
              /\ "pi_1" \in DOMAIN checkouts'
                    => /\ checkouts'["pi_1"].status = "pending"
                       /\ \A a \in DOMAIN words' : words'[a].pi # "pi_1"
       /\ WebhookReceive("h1", "valid", "payment_intent.payment_failed", "pi_1")
           => UNCHANGED <<ledger, checkouts, proc>> /\ hist'.runs = hist.runs]_vars

\* the checkout with a write is stored, a callback of another type was
\* answered, and the ledger is as it was
StoredAndStillPending ==
    /\ "pi_1" \in DOMAIN checkouts
    /\ checkouts["pi_1"].status = "pending"
    /\ checkouts["pi_1"].cart_actions = <<WriteHi>>
    /\ response.fn = "webhook" /\ response.ret = "received"
    /\ hist.runs["pi_1"] = 0
    /\ DOMAIN words = {1} /\ words_position_seq = 1

\* C29: the refund recorded on a completed checkout is at least 0 and at most
\* the total stored with the checkout, the amount of its payment intent.
RefundWithinTotal ==
    Completed("pi_1") =>
        /\ 0 <= checkouts["pi_1"].refund_amount
        /\ checkouts["pi_1"].refund_amount <= checkouts["pi_1"].total_amount

\* the refund is never negative, and it is within the sum of the prices when
\* every price is positive
RefundWithinPrices ==
    Completed("pi_1") =>
        /\ 0 <= checkouts["pi_1"].refund_amount
        /\ checkouts["pi_1"].refund_amount <= SumPrices(checkouts["pi_1"].cart_actions)

-----------------------------------------------------------------------------
(* Specification SpecRace: flagWord on word 1 in one handler while another
   handler redacts the word: redactWord, adminRedactWord or adminRemoveWord *)

Redactions ==
    \E p \in Procs :
        \/ redactWord_select(p, "route", 1)
        \/ redactWord_update(p)
        \/ adminRedactWord_select(p, 1)
        \/ adminRedactWord_update(p)
        \/ adminRemoveWord_select(p, 1)
        \/ adminRemoveWord_update(p)

NextRace == Flags \/ Redactions

SpecRace == InitFlags /\ [][NextRace]_vars

\* C26: the UPDATE of a flagWord call that finds the word redacted (by
\* redactWord, adminRedactWord or adminRemoveWord, written after the call's
\* SELECT) leaves the word's status as it is.
FlagKeepsRedaction ==
    [][\A p \in Procs :
          (flagWord_update(p) /\ words[1].status \in Hidden)
              => words'[1].status = words[1].status]_vars

-----------------------------------------------------------------------------
(* Specification SpecMachine: the operations that change a word's status, one
   call at a time, on word 1 (and redactWord also on a word that is missing) *)

MachineFlags ==
    \/ \E fp \in Fingerprints : flagWord_select("h1", 1, fp)
    \/ flagWord_existing("h1")
    \/ flagWord_count("h1")
    \/ flagWord_insert("h1")
    \/ flagWord_update("h1")
    \/ adminFlagWord_select("h1", 1)
    \/ adminFlagWord_update("h1")
    \/ adminUnflagWord_select("h1", 1)
    \/ adminUnflagWord_update("h1")

MachineRedactions ==
    \/ \E id \in 1..2 : redactWord_select("h1", "route", id)
    \/ redactWord_update("h1")
    \/ adminUncoverWord_select("h1", 1)
    \/ adminUncoverWord_update("h1")
    \/ adminRedactWord_select("h1", 1)
    \/ adminRedactWord_update("h1")
    \/ adminRemoveWord_select("h1", 1)
    \/ adminRemoveWord_update("h1")
    \/ adminRestoreWord_select("h1", 1)
    \/ adminRestoreWord_update("h1")

NextMachine == MachineFlags \/ MachineRedactions

SpecMachine == InitFlags /\ [][NextMachine]_vars

\* the transitions of the word state machine
LegalTransitions ==
    {<<Pending, Visible>>,
     <<Visible, Flagged>>, <<Flagged, Visible>>,
     <<Visible, Redacted>>, <<Flagged, Redacted>>,
     <<Redacted, Visible>>,
     <<Visible, AdminRedacted>>, <<Flagged, AdminRedacted>>,
     <<Redacted, AdminRedacted>>, <<AdminRedacted, Visible>>,
     <<AdminRemoved, Visible>>,
     <<Visible, Protected>>, <<Flagged, Protected>>,
     <<Protected, Visible>>, <<Protected, Flagged>>}
    \cup {<<from, AdminRemoved>> :
              from \in {Pending, Visible, Flagged, Redacted, AdminRedacted,
                        Protected, LineBreak}}

\* C27: every step that changes a word's status takes it along a legal
\* transition of the word state machine.
StatusChangesAreLegal ==
    [][\A a \in DOMAIN words \cap DOMAIN words' :
          words'[a].status # words[a].status
              => <<words[a].status, words'[a].status>> \in LegalTransitions]_vars

\* C28: no UPDATE of flagWord, adminFlagWord or adminUnflagWord changes the
\* status of a word that is redacted, admin_redacted or admin_removed.
FlagOpsKeepHidden ==
    [][( /\ \/ flagWord_update("h1")
            \/ adminFlagWord_update("h1")
            \/ adminUnflagWord_update("h1")
         /\ words[1].status \in Hidden )
          => words'[1].status = words[1].status]_vars

\* C30: redactWord on a visible or flagged word goes on to its UPDATE, which
\* sets the status redacted and flag_count 0 and returns true; on a word that
\* is redacted or admin_removed, or on no word, it returns false and no table
\* is changed.
RedactOutcome(id) ==
    LET word == SelectWord(words, id) IN
        /\ redactWord_select("h1", "route", id)
              => /\ UNCHANGED ledger
                 /\ IF word = NoWord \/ word.status \in {Redacted, AdminRemoved}
                    THEN /\ proc'["h1"] = IdleProc
                         /\ response'.fn = "redactWord" /\ response'.ret = "false"
                    ELSE word.status \in {Visible, Flagged}
                            => /\ proc'["h1"].fn = "redactWord"
                               /\ proc'["h1"].pc = "update"
                               /\ proc'["h1"].wordId = id
        /\ (redactWord_update("h1") /\ proc["h1"].wordId = id)
              => /\ words'[id].status = Redacted
                 /\ words'[id].flag_count = 0
                 /\ \A a \in DOMAIN words \ {id} : words'[a] = words[a]
                 /\ UNCHANGED <<word_flags, words_position_seq, uuids>>
                 /\ proc'["h1"] = IdleProc
                 /\ response'.fn = "redactWord" /\ response'.ret = "true"

RedactSetsRedactedOrFails == [][\A id \in 1..2 : RedactOutcome(id)]_vars

\* redactWord has redacted a word that was flagged, and has returned true
FlaggedWordRedacted ==
    /\ response.fn = "redactWord" /\ response.ret = "true"
    /\ words[1].status = Redacted /\ words[1].flag_count = 0
    /\ \E fp \in Fingerprints : hist.raised[<<1, fp>>] = 1
    /\ Idle("h1")

-----------------------------------------------------------------------------
(* Specification SpecBreaks: the administrator inserts words and line breaks
   at positions up to MaxBreakPosition, one call at a time, and a checkout's
   write is published *)

BreakPositions == {1, MaxBreakPosition - 1, MaxBreakPosition}

BreakInsertions ==
    \/ \E position \in BreakPositions : adminInsertWordAt_shift("h1", Ok, position)
    \/ adminInsertWordAt_insert("h1")
    \/ \E position \in BreakPositions : adminInsertLineBreak_select("h1", position)
    \/ adminInsertLineBreak_shift("h1")
    \/ adminInsertLineBreak_insert("h1")

NextBreaks == CheckoutOneWrite \/ WebhookPublishes \/ BreakInsertions

SpecBreaks == InitPositions /\ [][NextBreaks]_vars

Breaks(ws) == {a \in DOMAIN ws : ws[a].status = LineBreak}

\* some line break of ws is less than 10 positions from position
TooClose(ws, position) ==
    \E a \in Breaks(ws) :
        ws[a].position - position < 10 /\ position - ws[a].position < 10

BreakOutcome(position) ==
    /\ adminInsertLineBreak_select("h1", position)
          => /\ UNCHANGED <<words, word_flags, words_position_seq>>
             /\ IF TooClose(words, position)
                THEN /\ proc'["h1"] = IdleProc
                     /\ response'.fn = "adminInsertLineBreak"
                     /\ response'.ret = "null"
                ELSE /\ proc'["h1"].fn = "adminInsertLineBreak"
                     /\ proc'["h1"].pc = "shift"
                     /\ proc'["h1"].position = position
    /\ (adminInsertLineBreak_shift("h1") /\ proc["h1"].position = position)
          => /\ DOMAIN words' = DOMAIN words
             /\ \A a \in DOMAIN words :
                   /\ words'[a].position =
                         IF words[a].status # Pending /\ words[a].position >= position
                         THEN words[a].position + 1 ELSE words[a].position
                   /\ words'[a].status = words[a].status
                   /\ words'[a].content = words[a].content
             /\ \A a, b \in DOMAIN words :
                   words[a].position < words[b].position
                       => words'[a].position < words'[b].position
             /\ proc'["h1"].pc = "insert"
    /\ (adminInsertLineBreak_insert("h1") /\ proc["h1"].position = position)
          => /\ DOMAIN words' = DOMAIN words \cup {proc["h1"].wordId}
             /\ proc["h1"].wordId \notin DOMAIN words
             /\ words'[proc["h1"].wordId].status = LineBreak
             /\ words'[proc["h1"].wordId].position = position
             /\ \A a \in DOMAIN words : words'[a] = words[a]
             /\ response'.fn = "adminInsertLineBreak" /\ response'.ret = "id"

\* C31: adminInsertLineBreak at position p returns null after its SELECT and
\* changes no word when a line break lies less than 10 positions from p;
\* otherwise its UPDATE raises by one the position of every word that is not
\* pending and is at p or after (the order of the words is kept), and its
\* INSERT adds the line break at p.
BreakRejectedOrInserted == [][\A position \in BreakPositions : BreakOutcome(position)]_vars

\* a line break was refused while two line breaks stand
BreakRefusedNearAnother ==
    /\ response.fn = "adminInsertLineBreak" /\ response.ret = "null"
    /\ Cardinality(Breaks(words)) = 2
    /\ \E a \in DOMAIN words : words[a].status = Visible
    /\ Idle("h1")

\* C37: any two words with status linebreak are at least 10 positions apart.
BreaksTenApart ==
    \A a, b \in Breaks(words) :
        a # b => \/ words[a].position - words[b].position >= 10
                 \/ words[b].position - words[a].position >= 10

\* two line breaks stand, exactly 10 positions apart, with a word between them
TwoBreaksTenApart ==
    \E a, b \in Breaks(words), c \in DOMAIN words :
        /\ words[b].position - words[a].position = 10
        /\ words[c].status = Visible
        /\ words[a].position < words[c].position
        /\ words[c].position < words[b].position
        /\ Idle("h1")

-----------------------------------------------------------------------------
(* The life of a checkout record (Spec: two handlers deliver the event) *)

StatusRank(status) ==
    IF status = "pending" THEN 0 ELSE IF status = "processing" THEN 1 ELSE 2

\* C32: a stored checkout's status never moves back (pending, processing,
\* completed, by one step at a time); results, refund_amount and completed_at
\* change only in the step that takes the status to completed; cart_actions
\* and total_amount never change.
CheckoutMovesForward ==
    [][\A pi \in DOMAIN checkouts :
          LET old == checkouts[pi]
              new == checkouts'[pi]
          IN  /\ pi \in DOMAIN checkouts'
              /\ StatusRank(new.status) >= StatusRank(old.status)
              /\ StatusRank(new.status) <= StatusRank(old.status) + 1
              /\ new.cart_actions = old.cart_actions
              /\ new.total_amount = old.total_amount
              /\ <<new.results, new.refund_amount, new.completed_at>>
                     # <<old.results, old.refund_amount, old.completed_at>>
                   => old.status = "processing" /\ new.status = "completed"]_vars

-----------------------------------------------------------------------------
(* SpecMachine: admin_removed, the administrator's flag and unflag, and the
   agreement of status and flag_count *)

\* C33: a step that takes word 1 out of admin_removed is the UPDATE of
\* adminRestoreWord, and it leaves the word visible with flag_count 0.
RemovedUntilRestored ==
    [][(words[1].status = AdminRemoved /\ words'[1].status # AdminRemoved)
          => /\ proc["h1"].fn = "adminRestoreWord"
             /\ words'[1].status = Visible
             /\ words'[1].flag_count = 0]_vars

AdminFlagOutcome ==
    LET word == words[1] IN
        /\ adminFlagWord_select("h1", 1)
              => UNCHANGED ledger /\ proc'["h1"].pc = "update"
        /\ adminFlagWord_update("h1")
              => /\ words'[1].flag_count =
                       (IF word.flag_count < MAX_FLAG_COUNT
                        THEN word.flag_count + 1 ELSE MAX_FLAG_COUNT)
                 /\ words'[1].status =
                       (IF word.status = Visible THEN Flagged ELSE word.status)
                 /\ UNCHANGED word_flags
                 /\ response'.fn = "adminFlagWord" /\ response'.ret = "true"
        /\ adminUnflagWord_select("h1", 1)
              => /\ UNCHANGED ledger
                 /\ IF word.flag_count = 0
                    THEN /\ proc'["h1"] = IdleProc
                         /\ response'.fn = "adminUnflagWord"
                         /\ response'.ret = "false"
                    ELSE proc'["h1"].pc = "update"
        /\ adminUnflagWord_update("h1")
              => /\ words'[1].flag_count = word.flag_count - 1
                 /\ words'[1].status =
                       (IF word.flag_count = 1 THEN Visible ELSE word.status)
                 /\ UNCHANGED word_flags
                 /\ response'.fn = "adminUnflagWord" /\ response'.ret = "true"

\* C34: adminFlagWord raises flag_count by one, to at most 20, makes a visible
\* word flagged and keeps any other status, inserts no flag record and is
\* refused by nothing but a missing word; adminUnflagWord lowers flag_count by
\* one and makes the word visible when the count reaches 0, and on a word with
\* flag_count 0 it returns false and changes nothing.
AdminFlagAndUnflag == [][AdminFlagOutcome]_vars

\* the administrator's flags alone have taken the word to the ceiling, and a
\* further flag was accepted
AdminFlaggedToCeiling ==
    /\ words[1].flag_count = MAX_FLAG_COUNT /\ words[1].status = Flagged
    /\ \A fp \in Fingerprints : word_flags[<<1, fp>>] = 0
    /\ response.fn = "adminFlagWord" /\ response.ret = "true"
    /\ Idle("h1")

-----------------------------------------------------------------------------
(* Positions and pending words (SpecStory) *)

\* C36: a word has no position if and only if its status is pending.
UnsetPositionIffPending ==
    \A a \in DOMAIN words :
        words[a].position = NoPosition <=> words[a].status = Pending

-----------------------------------------------------------------------------
(* Specification SpecRateRace: two handlers run flagWord for fingerprint fp_a
   on words 1 and 2 while fp_a is one or two records short of the limit *)

FlagsRateRace ==
    \E p \in Procs :
        \/ \E id \in 1..2 : flagWord_select(p, id, "fp_a")
        \/ flagWord_existing(p)
        \/ flagWord_count(p)
        \/ flagWord_insert(p)
        \/ flagWord_update(p)

NextRateRace == FlagsRateRace

SpecRateRace == InitRate /\ [][NextRateRace]_vars

\* C38: a fingerprint never holds more than FLAG_RATE_LIMIT flag records.
RateLimitNeverOvershot ==
    \A fp \in Fingerprints : CountFlags(word_flags, fp) <= FLAG_RATE_LIMIT

-----------------------------------------------------------------------------
(* SpecAdmin: requests from another address, and the counter after a success *)

OtherAddressOutcome(ip, token, id) ==
    AdminPost("h1", ip, token, id)
        => /\ (configured(env) /\ ip # env.ADMIN_ALLOWED_IP)
                 => /\ UNCHANGED failedAttempts
                    /\ Refused(404)
                    /\ authenticateAdmin(<<>>, DateNow(now), env, ip, token)
                           = AuthResult(FALSE, 404, <<>>)
           /\ (Admitted /\ Attempts(failedAttempts, ip).count < MAX_FAILURES)
                 => UNCHANGED failedAttempts

====
